---- MODULE Spec2Model ----
(***************************************************************************)
(* Transport client (AppServerClient), stream emitter, notification router *)
(* and session of ai-sdk-provider-codex-app-server, as state machines.     *)
(*                                                                         *)
(* The specifications share the definitions below:                         *)
(*   Spec        the transport client driven by MaxCalls request() calls,  *)
(*               the subprocess' stdout lines, its exit and error events,  *)
(*               request timers and dispose();                             *)
(*   SpecRouter  one streamed turn seen by the router and the emitter:     *)
(*               the turn's notifications dispatched to the handlers the   *)
(*               router registered, up to turn completion;                 *)
(*   SpecStream  one streamed turn with the abort listener, whose          *)
(*               interrupt request goes through the same client;           *)
(*   SpecSession the session's injectMessage() and interrupt();            *)
(*   SpecDispatch the handlers the client's users register on one          *)
(*               notification method, and the dispatch of its              *)
(*               notifications;                                            *)
(*   SpecNumeric, SpecTool, SpecFinish, SpecEmitter, SpecRaw               *)
(*               the router or the emitter on particular inputs: numeric   *)
(*               ids, tool items, turn statuses, direct emitter calls,     *)
(*               raw chunks;                                               *)
(*   SpecModel   doStream() calls of one language model, by the outcome    *)
(*               of their thread and turn requests;                        *)
(*   SpecSetup   doStream from startTurn() to router.subscribe(), on the   *)
(*               real client;                                              *)
(*   SpecCancel  a streamed turn whose consumer cancels the stream;        *)
(*   SpecInject  a streamed turn whose session injects messages.           *)

(*                                                                         *)
(* JavaScript runs one handler to completion; an await suspends the        *)
(* caller until a microtask resumes it, and microtasks run before the next *)
(* I/O event or timer.  A caller between its call and its resumption has   *)
(* pc = "resume"; the I/O actions are disabled while any caller is there.  *)
(***************************************************************************)
EXTENDS Integers, Sequences, FiniteSets, TLC

\* ---------------------------------------------------------------- bounds
\* request() invocations by the client's users in Spec
MaxCalls == 2
\* nested start() frames the call stack holds before it is exhausted
StackDepth == 2
\* subprocesses ever spawned by one client
MaxProcs == 4
\* stdout lines of one run in Spec
MaxLines == 3
\* dispose() calls of one run
MaxDisposals == 2

\* caller 0 is Session.interrupt()'s turn/interrupt request
InterruptCaller == 0
Callers == 0 .. MaxCalls
UserCallers == 1 .. MaxCalls
\* request ids: randomUUID() yields a fresh id per request
RequestIds == 1 .. (MaxCalls + 1)
\* an id no request of this client carries
ForeignId == MaxCalls + 2
FrameIds == RequestIds \cup {ForeignId}
\* body of a response line: {id, result}, {id, error} or {id} alone
FrameKinds == {"result", "error", "bare"}

VARIABLES
    \* ---- AppServerClient
    process,            \* this.process: 0 is null, else the subprocess handle
    procs,              \* spawned subprocesses whose listeners can still fire
    spawned,            \* number of spawn() calls so far
    epochSpawns,        \* spawn() calls since construction or the last cleanup()
    handshakes,         \* initialize requests written since then
    initialized,        \* this.initialized
    starting,           \* this.starting: "null" or the state of the promise
    pendingRequests,    \* keys of this.pendingRequests
    timers,             \* request ids whose setTimeout is armed
    owner,              \* request id -> caller whose promise the entry holds
    nextId,             \* next fresh request id
    calls,              \* caller -> its request() invocation
    wire,               \* request frames written, and signals sent, to a subprocess
    nlines,             \* stdout lines read so far
    lastFrame,          \* the stdout line handled last, and what it settled
    disposeCalls,       \* calls of dispose() so far
    \* ---- AppServerClient.notificationHandlers
    notificationHandlers, \* methods on which the router's handler is registered
    \* ---- NotificationRouter
    unsubscribers,      \* methods whose unsubscribe closure the router holds
    activeTools,        \* ToolTracker.activeTools: item id -> tool name
    textItemIdsWithDelta,
    reasoningItemIdsWithDelta,
    completions,        \* calls of options.onTurnCompleted
    nseq,               \* notifications of the router's turn handled so far
    lastNotif,          \* the notification handled last: whose it was, what it reported
    \* ---- StreamEmitter and its ReadableStream controller
    out,                \* the parts enqueued on the controller, in order
    ctrlClosed,         \* the controller has been closed
    closeCalls,         \* calls of controller.close()
    textStarted,
    reasoningStarted,
    includeRawChunks,   \* options.includeRawChunks
    toolStats,          \* this.toolStats: totalCalls and the four byType counters
    modelId,            \* options.modelId, the model's this.modelId
    warnings,           \* the warnings doStream collected before the turn
    \* ---- SessionImpl
    session,            \* _turnId and _isActive
    \* ---- doStream
    abortPc,            \* position of the abort listener
    cleanups,           \* calls of doStream's cleanup()
    handlerErrors,      \* exceptions caught by handleMessage or left unhandled
    \* ---- AppServerClient.notificationHandlers.get(m), for one method m on
    \* ---- which the client's users register handlers of their own
    methodHandlers,     \* the Set of handlers of m, in insertion order
    handlerKind,        \* handler -> what it does when it is invoked
    passLog,            \* the handlers the latest dispatch pass invoked, in order
    passes,             \* notifications of m dispatched so far
    subscriptions,      \* onNotification(m, ...) calls so far
    \* ---- CodexAppServerLanguageModel
    currentSession,     \* this.currentSession?.threadId: 0 is no session
    doStreams,          \* doStream() call -> how far it is and what it holds
    nextThread          \* the id the subprocess gives the next new thread

clientVars == <<process, procs, spawned, epochSpawns, handshakes, initialized,
                starting, pendingRequests, timers, owner, nextId, calls, wire,
                nlines, lastFrame, disposeCalls>>

routerVars == <<notificationHandlers, unsubscribers, activeTools,
                textItemIdsWithDelta, reasoningItemIdsWithDelta, completions,
                nseq, lastNotif>>

emitterVars == <<out, ctrlClosed, closeCalls, textStarted, reasoningStarted,
                 includeRawChunks, toolStats, modelId, warnings>>

turnVars == <<session, abortPc, cleanups, handlerErrors>>

registryVars == <<methodHandlers, handlerKind, passLog, passes, subscriptions>>

modelVars == <<currentSession, doStreams, nextThread>>

streamVars == <<routerVars, emitterVars, turnVars, registryVars, modelVars>>

vars == <<clientVars, streamVars>>

\* ------------------------------------------------------- request() calls
NoCall == [pc |-> "idle", started |-> FALSE, id |-> 0, method |-> "none",
           arg |-> "none", timeoutMs |-> 0, outcome |-> "none", settles |-> 0,
           by |-> {}, result |-> "none"]

\* the delay of a request's timer when the caller passes none
DEFAULT_REQUEST_TIMEOUT == 60000

NoFrame == [id |-> 0, kind |-> "none", found |-> FALSE, caller |-> -1]

\* a caller suspended on `await this.ensureStarted()`, or the abort listener
\* whose `await session.interrupt()` has settled, is resumed by a microtask
MicrotaskPending ==
    \/ \E c \in Callers : calls[c].pc = "resume"
    \/ abortPc = "awaitIdle"
    \/ abortPc = "awaitRequest" /\ calls[0].pc = "done"
    \/ \E c \in Callers : calls[c].pc = "done" /\ calls[c].method = "turn/start"
    \/ abortPc = "none" /\ calls[0].pc = "done"

\* resolve()/reject() of the promise request() returned: the first call
\* settles it, later calls are counted and change nothing else.  `by` keeps
\* the ids of the response frames whose handling called resolve or reject.
Settle(cs, c, how, frameId) ==
    [cs EXCEPT ![c] = [@ EXCEPT
        !.pc = IF @ \in {"returned", "threw"} THEN @ ELSE "done",
        !.outcome = IF @ = "none" THEN how ELSE @,
        !.by = IF frameId = 0 THEN @ ELSE @ \cup {frameId},
        !.settles = @ + 1]]

\* ----------------------------------------------- ensureStarted / start
\* The client fields start() and ensureStarted() read and write.
ClientState == [process |-> process, procs |-> procs, spawned |-> spawned,
                epochSpawns |-> epochSpawns, initialized |-> initialized,
                starting |-> starting]

RECURSIVE ensureStarted(_, _)
RECURSIVE start(_, _)

\* ensureStarted(): returns the client state and the state of the promise
\* the caller awaits.  `this.starting = this.start()` assigns only after
\* start() has returned, that is after start() ran up to its first await.
ensureStarted(st, depth) ==
    IF st.initialized THEN [st |-> st, res |-> "resolved"]
    ELSE IF st.starting # "null" THEN [st |-> st, res |-> st.starting]
    ELSE LET r == start(st, depth)
         IN  [st |-> [r.st EXCEPT !.starting = r.res], res |-> r.res]

\* start(): spawn, attach the listeners, then `await this.request('initialize')`.
\* request() begins with `await this.ensureStarted()`, which runs before
\* start() has returned: initialized is false and this.starting is still
\* unassigned, so it calls start() again.  The nesting ends when the call
\* stack is exhausted (RangeError), which rejects the innermost promise and,
\* through the awaits, every promise of the chain.
start(st, depth) ==
    \* the frame does not fit on the stack, or spawn() itself throws
    IF depth >= StackDepth \/ st.spawned >= MaxProcs
    THEN [st |-> st, res |-> "rejected"]
    ELSE LET p  == st.spawned + 1
             s1 == [st EXCEPT !.process = p, !.procs = @ \cup {p},
                              !.spawned = p, !.epochSpawns = @ + 1]
             r  == ensureStarted(s1, depth + 1)
         IN  \* the initialize request is written only once ensureStarted
             \* resolved; start() then stays in flight until its response
             IF r.res = "resolved" THEN [st |-> r.st, res |-> "pending"]
             ELSE [st |-> r.st, res |-> "rejected"]

\* request(), up to its first await
RequestCall(c, m, a) ==
    /\ calls[c].pc = "idle"
    /\ LET r == ensureStarted(ClientState, 0)
       IN  /\ r.res \in {"resolved", "rejected"}
           /\ process' = r.st.process
           /\ procs' = r.st.procs
           /\ spawned' = r.st.spawned
           /\ epochSpawns' = r.st.epochSpawns
           /\ starting' = r.st.starting
           /\ calls' = [calls EXCEPT ![c] = [@ EXCEPT !.pc = "resume",
                                  !.started = (r.res = "resolved"),
                                  !.method = m, !.arg = a,
                                  !.timeoutMs = DEFAULT_REQUEST_TIMEOUT]]
    /\ UNCHANGED <<disposeCalls, handshakes, initialized, pendingRequests, timers, owner,
                   nextId, wire, nlines, lastFrame>>

\* request(), resumed after `await this.ensureStarted()`: a rejected start
\* rejects the request; otherwise the timer is armed, the entry stored and
\* the frame written.  send() throws inside the promise executor when there
\* is no process: the promise is rejected, entry and timer stay.
RequestResume(c) ==
    /\ calls[c].pc = "resume"
    /\ IF ~calls[c].started
       THEN /\ calls' = Settle(calls, c, "startFailed", 0)
            /\ UNCHANGED <<pendingRequests, timers, owner, nextId, wire>>
       ELSE /\ nextId \in RequestIds
            /\ nextId' = nextId + 1
            /\ timers' = timers \cup {nextId}
            /\ pendingRequests' = pendingRequests \cup {nextId}
            /\ owner' = [owner EXCEPT ![nextId] = c]
            /\ IF process # 0
               THEN /\ wire' = wire \cup {[proc |-> process, id |-> nextId,
                                           method |-> calls[c].method,
                                           arg |-> calls[c].arg]}
                    /\ calls' = [calls EXCEPT ![c] = [@ EXCEPT !.pc = "pending",
                                                               !.id = nextId]]
               ELSE /\ wire' = wire
                    /\ calls' = Settle([calls EXCEPT ![c] = [@ EXCEPT !.id = nextId]],
                                       c, "sendFailed", 0)
    /\ UNCHANGED <<process, procs, spawned, disposeCalls, epochSpawns, handshakes,
                   initialized, starting, nlines, lastFrame>>

\* a timer callback that rejects and leaves the entry in the table
TimeoutKeepsEntry(id) ==
    /\ ~MicrotaskPending
    /\ id \in timers
    /\ timers' = timers \ {id}
    /\ pendingRequests' = pendingRequests
    /\ calls' = Settle(calls, owner[id], "timeout", 0)
    /\ UNCHANGED <<process, procs, spawned, disposeCalls, epochSpawns, handshakes,
                   initialized, starting, owner, nextId, wire, nlines, lastFrame>>

\* the setTimeout callback of request(): delete the entry, reject
Timeout(id) ==
    /\ ~MicrotaskPending
    /\ id \in timers
    /\ timers' = timers \ {id}
    /\ pendingRequests' = pendingRequests \ {id}
    /\ calls' = Settle(calls, owner[id], "timeout", 0)
    /\ UNCHANGED <<process, procs, spawned, disposeCalls, epochSpawns, handshakes,
                   initialized, starting, owner, nextId, wire, nlines, lastFrame>>

\* ------------------------------------------------------ handleMessage
\* a lookup that takes any pending entry, whatever its key
PendingForAnyEntry(id) ==
    IF pendingRequests = {} THEN {} ELSE {CHOOSE e \in pendingRequests : TRUE}

\* The entry a response frame finds: this.pendingRequests.get(msg.id)
PendingFor(id) == IF id \in pendingRequests THEN {id} ELSE {}

\* handleMessage() on a frame that has an id
HandleResponse(id, kind) ==
    LET hit == PendingFor(id)
        c   == IF hit = {} THEN -1 ELSE owner[CHOOSE e \in hit : TRUE]
    IN  /\ timers' = timers \ hit
        /\ pendingRequests' = pendingRequests \ hit
        /\ calls' = IF hit = {} \/ kind = "bare" THEN calls
                    ELSE Settle(calls, c, kind, id)
        /\ lastFrame' = [id |-> id, kind |-> kind, found |-> hit # {},
                         caller |-> c]

\* the readline 'line' listener on a frame with an id
ResponseLine(p, id, kind) ==
    /\ ~MicrotaskPending
    /\ p \in procs
    /\ nlines < MaxLines
    /\ id < nextId \/ id = ForeignId
    /\ nlines' = nlines + 1
    /\ HandleResponse(id, kind)
    /\ UNCHANGED <<process, procs, spawned, disposeCalls, epochSpawns, handshakes,
                   initialized, starting, owner, nextId, wire>>

\* a line JSON.parse rejected: it carried no frame
MalformedFrame == [id |-> 0, kind |-> "malformed", found |-> FALSE, caller |-> -1]

\* a line listener that gives up the pending requests on a line it cannot
\* parse
MalformedLineDropsPending(p) ==
    /\ ~MicrotaskPending
    /\ p \in procs
    /\ nlines < MaxLines
    /\ nlines' = nlines + 1
    /\ lastFrame' = MalformedFrame
    /\ pendingRequests' = {}
    /\ timers' = {}
    /\ UNCHANGED <<process, procs, spawned, disposeCalls, epochSpawns, handshakes,
                   initialized, starting, owner, nextId, calls, wire>>

\* the readline 'line' listener on a line JSON.parse rejects: logged only
MalformedLine(p) ==
    /\ ~MicrotaskPending
    /\ p \in procs
    /\ nlines < MaxLines
    /\ nlines' = nlines + 1
    /\ lastFrame' = MalformedFrame
    /\ UNCHANGED <<process, procs, spawned, disposeCalls, epochSpawns, handshakes,
                   initialized, starting, pendingRequests, timers, owner,
                   nextId, calls, wire>>

\* ------------------------------------------------- cleanup and dispose
RECURSIVE RejectAll(_, _)
RejectAll(cs, ids) ==
    IF ids = {} THEN cs
    ELSE LET id == CHOOSE i \in ids : TRUE
         IN  RejectAll(Settle(cs, owner[id], "closed", 0), ids \ {id})

\* cleanup(): forget the process, reject and delete every pending request
cleanup ==
    /\ initialized' = FALSE
    /\ starting' = "null"
    /\ process' = 0
    /\ epochSpawns' = 0
    /\ handshakes' = 0
    /\ timers' = timers \ pendingRequests
    /\ calls' = RejectAll(calls, pendingRequests)
    /\ pendingRequests' = {}

\* the 'exit' listener start() attached to subprocess p
ProcessExit(p) ==
    /\ ~MicrotaskPending
    /\ p \in procs
    /\ procs' = procs \ {p}
    /\ cleanup
    /\ UNCHANGED <<spawned, disposeCalls, owner, nextId, wire, nlines, lastFrame>>

\* the 'error' listener start() attached to subprocess p
ProcessError(p) ==
    /\ ~MicrotaskPending
    /\ p \in procs
    /\ procs' = procs \ {p}
    /\ cleanup
    /\ UNCHANGED <<spawned, disposeCalls, owner, nextId, wire, nlines, lastFrame>>

\* the signal dispose() sends to subprocess p
Sigterm(p) == [proc |-> p, id |-> 0, method |-> "SIGTERM", arg |-> "none"]

\* a dispose() without its test of this.process
DisposeUnguarded ==
    /\ disposeCalls < MaxDisposals
    /\ disposeCalls' = disposeCalls + 1
    /\ wire' = IF process # 0 THEN wire \cup {Sigterm(process)} ELSE wire
    /\ cleanup
    /\ UNCHANGED <<procs, spawned, owner, nextId, nlines, lastFrame>>

\* dispose(): when there is a process, SIGTERM to it, whose 'exit' event
\* follows later, and cleanup(); nothing otherwise
Dispose ==
    /\ disposeCalls < MaxDisposals
    /\ disposeCalls' = disposeCalls + 1
    /\ IF process # 0
       THEN /\ wire' = wire \cup {Sigterm(process)}
            /\ cleanup
       ELSE UNCHANGED <<wire, initialized, starting, process, epochSpawns,
                        handshakes, timers, calls, pendingRequests>>
    /\ UNCHANGED <<procs, spawned, owner, nextId, nlines, lastFrame>>

\* =================================================================
\* One streamed turn: router, emitter, session, abort listener
\* =================================================================

\* ---------------------------------------------------------------- bounds
\* item and delta notifications dispatched during the turn; one
\* turn/completed may follow them
MaxNotifs == 2

\* the (thread, turn) pair doStream gives the router; turnId is
\* String(turnResult.turn.id)
RouterThread == "7"
RouterTurn == "5"
\* ids as they appear in notifications: strings, or the number 5 ("num5")
ThreadIds == {"7", "other"}
TurnIds == {"5", "num5", "6"}
ItemIds == {"i1", "i2"}
\* the number 7 as a thread id
NumericThread == "num7"
\* String(x)
StringOf(x) ==
    CASE x = "num5" -> "5"
      [] x = "num7" -> "7"
      [] OTHER -> x

\* the warnings doStream may have collected and the model ids of a provider
NoWarnings == <<>>
WarningLists == {NoWarnings, <<"System prompt is ignored when reusing an existing thread.">>}
DefaultModel == "codex"
ModelIds == {DefaultModel, "gpt-5.1-codex-max"}

\* item.type as the subprocess spells it
ItemTypes == {"commandExecution", "McpToolCall", "agentMessage", "Reasoning",
              "userMessage"}
\* the four tool types, as the subprocess spells them
ToolItemTypes == {"commandExecution", "fileChange", "McpToolCall", "webSearch"}
\* type.toLowerCase()
normalizeType(t) ==
    CASE t = "commandExecution" -> "commandexecution"
      [] t = "McpToolCall" -> "mcptoolcall"
      [] t = "fileChange" -> "filechange"
      [] t = "webSearch" -> "websearch"
      [] t = "agentMessage" -> "agentmessage"
      [] t = "Reasoning" -> "reasoning"
      [] OTHER -> "usermessage"

TOOL_TYPES == {"commandexecution", "filechange", "mcptoolcall", "websearch"}
isToolItem(item) == normalizeType(item.type) \in TOOL_TYPES

\* resolveToolName(item).toolName; the mcp name is built from server and tool
resolveToolName(item) ==
    LET type == normalizeType(item.type)
    IN  CASE type = "commandexecution" -> "exec"
          [] type = "filechange" -> "patch"
          [] type = "websearch" -> "web_search"
          [] type = "mcptoolcall" -> "mcp__server__tool"
          [] OTHER -> "tool"

resolveToolDynamic(item) == normalizeType(item.type) = "mcptoolcall"

\* buildToolInputPayload(item): an object for the four tool types, else
\* undefined
buildToolInputPayload(item) ==
    IF isToolItem(item)
    THEN [defined |-> TRUE, of |-> normalizeType(item.type)]
    ELSE [defined |-> FALSE, of |-> ""]

\* item.exitCode of a CommandExecution (number | null, optional) and
\* item.error of a McpToolCall (unknown | null, optional); "undefined" is the
\* property left out, "empty" the string ''
ExitCodes == {"undefined", "null", "0", "1"}
ItemErrors == {"undefined", "null", "empty", "message"}
\* a property the item does not carry reads as undefined
exitCodeOf(item) == IF "exitCode" \in DOMAIN item THEN item.exitCode ELSE "undefined"
itemErrorOf(item) == IF "itemError" \in DOMAIN item THEN item.itemError ELSE "undefined"
\* the truth value JavaScript gives item.error
truthy(v) == v \notin {"undefined", "null", "empty"}

\* buildToolResultPayload(item).isError, undefined read as false
buildToolResultPayload(item) ==
    LET type == normalizeType(item.type)
    IN  CASE type = "commandexecution" ->
               [isError |-> exitCodeOf(item) # "undefined" /\ exitCodeOf(item) # "0"]
          [] type = "mcptoolcall" -> [isError |-> truthy(itemErrorOf(item))]
          [] OTHER -> [isError |-> FALSE]

\* safeJsonStringify(value): '' for undefined, the JSON text of an object
safeJsonStringify(value) ==
    IF ~value.defined THEN "" ELSE "{" \o value.of \o "}"

\* the methods NotificationRouter.subscribe() registers a handler for
TextDeltaMethods == {"item/agentMessage/delta", "agentMessageDelta"}
ReasoningDeltaMethods == {"reasoningTextDelta", "item/reasoning/textDelta"}
SummaryDeltaMethods == {"reasoningSummaryTextDelta", "item/reasoning/summaryTextDelta"}
ApprovalMethods == {"item/commandExecution/requestApproval",
                    "item/fileChange/requestApproval"}
RouterMethods == TextDeltaMethods \cup ReasoningDeltaMethods \cup SummaryDeltaMethods
                 \cup ApprovalMethods
                 \cup {"item/started", "item/completed", "turn/completed"}

\* turn.status and turn.error of a turn/completed notification
TurnStatuses == {"completed", "interrupted", "failed", "inProgress"}
TurnErrors == {"none", "message", "messageAndInfo"}
\* an error comes with a failed turn, or with a turn reported completed
ErrorStatuses == {"failed", "completed"}

\* agentMessage text, reasoning summary and content of a completed item
ItemTexts == {"", "full"}

\* a notification line: method and params
Notifications ==
    [method : RouterMethods, threadId : ThreadIds, turnId : TurnIds,
     itemId : ItemIds, type : ItemTypes, text : ItemTexts, summary : ItemTexts,
     status : TurnStatuses, error : TurnErrors]

\* the fields a method's params carry; the others are kept at one value
Relevant(n) ==
    /\ n.method \notin {"item/started", "item/completed"} => n.type = "userMessage"
    /\ (n.method # "item/completed" \/ normalizeType(n.type) \notin {"agentmessage", "reasoning"})
          => n.text = "" /\ n.summary = ""
    /\ (n.method = "item/completed" /\ normalizeType(n.type) = "agentmessage") => n.summary = ""
    /\ n.method # "turn/completed" => n.status = "completed" /\ n.error = "none"
    /\ n.method = "turn/completed" => n.itemId = "i1"
    /\ n.error # "none" => n.status \in ErrorStatuses

RelevantNotifications == {n \in Notifications : Relevant(n)}

\* the notifications of SpecRouter: they concern one item
RouterNotifications == {n \in RelevantNotifications : n.itemId = "i1"}

\* the notifications of SpecStream: a text delta, a reasoning delta, a tool
\* start and the turn's completion, of the router's turn or of another one
StreamNotifications ==
    {n \in RouterNotifications :
        /\ n.method \in {"item/agentMessage/delta", "item/reasoning/textDelta",
                         "item/started", "turn/completed"}
        /\ n.threadId = RouterThread
        /\ n.turnId \in {"5", "6"}
        /\ n.method = "item/started" => n.type = "commandExecution"
        /\ n.status \in {"completed", "failed", "interrupted"}
        /\ n.error \in {"none", "message"}}

\* ----------------------------------------------------- stream parts
TextId == "textId"
ReasoningId == "reasoningId"

\* a LanguageModelV3StreamPart: its type, the id it carries, the number of
\* the notification whose handler enqueued it (0: doStream itself), its
\* text (delta, tool name or finish reason) and its flag (summary, dynamic,
\* error)
Part(type, id, n, text, flag) ==
    [type |-> type, id |-> id, n |-> n, text |-> text, flag |-> flag]

\* the router, emitter and session fields the handlers read and write
StreamState ==
    [out |-> out, closed |-> ctrlClosed, closeCalls |-> closeCalls,
     textStarted |-> textStarted, reasoningStarted |-> reasoningStarted,
     raw |-> includeRawChunks, modelId |-> modelId, toolStats |-> toolStats,
     handlers |-> notificationHandlers, unsubscribers |-> unsubscribers,
     activeTools |-> activeTools,
     textIds |-> textItemIdsWithDelta, reasoningIds |-> reasoningItemIdsWithDelta,
     completions |-> completions, session |-> session, cleanups |-> cleanups,
     err |-> FALSE]

SetStream(S) ==
    /\ out' = S.out
    /\ ctrlClosed' = S.closed
    /\ closeCalls' = S.closeCalls
    /\ textStarted' = S.textStarted
    /\ reasoningStarted' = S.reasoningStarted
    /\ includeRawChunks' = S.raw
    /\ toolStats' = S.toolStats
    /\ UNCHANGED <<modelId, warnings>>
    /\ notificationHandlers' = S.handlers
    /\ unsubscribers' = S.unsubscribers
    /\ activeTools' = S.activeTools
    /\ textItemIdsWithDelta' = S.textIds
    /\ reasoningItemIdsWithDelta' = S.reasoningIds
    /\ completions' = S.completions
    /\ session' = S.session
    /\ cleanups' = S.cleanups

\* a statement of a handler: skipped once an exception is propagating
Do(S, T) == IF S.err THEN S ELSE T

\* a queue that puts the newest part first
enqueueFront(S, part) ==
    Do(S, IF S.closed THEN [S EXCEPT !.err = TRUE]
          ELSE [S EXCEPT !.out = <<part>> \o @])

\* controller.enqueue(part): throws on a closed controller
enqueue(S, part) ==
    Do(S, IF S.closed THEN [S EXCEPT !.err = TRUE]
          ELSE [S EXCEPT !.out = Append(@, part)])

\* controller.close(): throws on a closed controller
close(S) ==
    Do(S, IF S.closed THEN [S EXCEPT !.closeCalls = @ + 1, !.err = TRUE]
          ELSE [S EXCEPT !.closeCalls = @ + 1, !.closed = TRUE])

\* ------------------------------------------------------ StreamEmitter
\* the toolStats of a new emitter
NoToolStats ==
    [totalCalls |-> 0, commands |-> 0, fileChanges |-> 0, mcpTools |-> 0,
     webSearches |-> 0]

\* recordToolExecution(toolType): the only writer of toolStats; neither the
\* router nor doStream calls it
recordToolExecution(S, toolType) ==
    Do(S, [S EXCEPT !.toolStats =
              [@ EXCEPT !.totalCalls = @ + 1,
                        !.commands = IF toolType = "command" THEN @ + 1 ELSE @,
                        !.fileChanges = IF toolType = "fileChange" THEN @ + 1 ELSE @,
                        !.mcpTools = IF toolType = "mcpTool" THEN @ + 1 ELSE @,
                        !.webSearches = IF toolType = "webSearch" THEN @ + 1 ELSE @]])

\* a stream start that leaves the collected warnings out
emitStreamStartNoWarnings(S, w) ==
    enqueue(enqueue(S, Part("stream-start", "", 0, "", FALSE) @@ [warnings |-> <<>>]),
            Part("response-metadata", RouterTurn, 0, "", FALSE)
                @@ [modelId |-> S.modelId, sessionId |-> RouterThread])

\* emitStreamStart(warnings): the stream-start part with the warnings, then
\* the response-metadata part with options.turnId, options.modelId and
\* providerMetadata.codex.sessionId = options.threadId
emitStreamStart(S, w) ==
    enqueue(enqueue(S, Part("stream-start", "", 0, "", FALSE) @@ [warnings |-> w]),
            Part("response-metadata", RouterTurn, 0, "", FALSE)
                @@ [modelId |-> S.modelId, sessionId |-> RouterThread])

emitRaw(S, n, method) ==
    IF S.raw THEN enqueue(S, Part("raw", "", n, method, FALSE)) ELSE S

\* a text delta that opens the segment every time
emitTextDeltaRestarts(S, n, delta) ==
    enqueue(enqueue(Do(S, [S EXCEPT !.textStarted = TRUE]),
                    Part("text-start", TextId, n, "", FALSE)),
            Part("text-delta", TextId, n, delta, FALSE))

\* emitTextDelta(delta): text-start before the first delta only
emitTextDelta(S, n, delta) ==
    LET S1 == IF ~S.textStarted
              THEN enqueue(Do(S, [S EXCEPT !.textStarted = TRUE]),
                           Part("text-start", TextId, n, "", FALSE))
              ELSE S
    IN  enqueue(S1, Part("text-delta", TextId, n, delta, FALSE))

\* a reasoning delta that marks a summary inside the text
emitReasoningDeltaPrefixed(S, n, delta, isSummary) ==
    LET S1 == IF ~S.reasoningStarted
              THEN enqueue(Do(S, [S EXCEPT !.reasoningStarted = TRUE]),
                           Part("reasoning-start", ReasoningId, n, "", FALSE))
              ELSE S
    IN  enqueue(S1, Part("reasoning-delta", ReasoningId, n,
                         IF isSummary THEN "[summary] " \o delta ELSE delta, FALSE))

\* emitReasoningDelta(delta, isSummary): reasoning-start before the first
\* delta only; the part's flag is providerMetadata.codex.isSummary, which
\* the part carries only when isSummary is true
emitReasoningDelta(S, n, delta, isSummary) ==
    LET S1 == IF ~S.reasoningStarted
              THEN enqueue(Do(S, [S EXCEPT !.reasoningStarted = TRUE]),
                           Part("reasoning-start", ReasoningId, n, "", FALSE))
              ELSE S
    IN  enqueue(S1, Part("reasoning-delta", ReasoningId, n, delta, isSummary))

emitToolInput(S, n, toolCallId, toolName, input, dynamic) ==
    LET S1 == enqueue(S, Part("tool-input-start", toolCallId, n, toolName, dynamic))
        S2 == IF input # ""
              THEN enqueue(S1, Part("tool-input-delta", toolCallId, n, input, FALSE))
              ELSE S1
    IN  enqueue(S2, Part("tool-input-end", toolCallId, n, "", FALSE))

emitToolCall(S, n, toolCallId, toolName, input, dynamic) ==
    enqueue(S, Part("tool-call", toolCallId, n, toolName, dynamic))

\* the part carries isError only when the flag is true
emitToolResult(S, n, toolCallId, toolName, isError, dynamic) ==
    LET part == Part("tool-result", toolCallId, n, toolName, dynamic)
    IN  enqueue(S, IF isError THEN part @@ [isError |-> TRUE] ELSE part)

emitApprovalRequest(S, n, itemId) ==
    enqueue(S, Part("tool-approval-request", itemId, n, "", FALSE))

\* a mapping that calls every status a stop
mapFinishReasonAllStop(status) == "stop"

\* mapFinishReason(status, error).unified
mapFinishReason(status) ==
    CASE status = "completed" -> "stop"
      [] status = "interrupted" -> "stop"
      [] status = "failed" -> "error"
      [] OTHER -> "other"

\* JSON.stringify(error)
jsonOfError(error) ==
    IF error = "messageAndInfo" THEN "{message,codexErrorInfo}" ELSE "{message}"

\* a raw payload that is the status whatever the error
mapFinishReasonRawStatus(status, error) == status

\* mapFinishReason(status, error).raw
mapFinishReasonRaw(status, error) ==
    IF status = "failed" /\ error # "none" THEN jsonOfError(error) ELSE status

\* the text emitFinish makes of a turn error
ErrorText(error) ==
    IF error = "messageAndInfo" THEN "Error: message\n\ninfo" ELSE "Error: message"

\* a finish that closes reasoning before text
emitFinishReasoningFirst(S, n, status, error) ==
    LET S1 == IF error # "none" /\ ~S.textStarted
              THEN emitTextDelta(S, n, ErrorText(error))
              ELSE S
        S2 == IF S1.reasoningStarted
              THEN enqueue(S1, Part("reasoning-end", ReasoningId, n, "", FALSE))
              ELSE S1
        S3 == IF S2.textStarted
              THEN enqueue(S2, Part("text-end", TextId, n, "", FALSE))
              ELSE S2
    IN  enqueue(S3, Part("finish", "", n, mapFinishReason(status), S3.reasoningStarted)
                    @@ [raw |-> mapFinishReasonRaw(status, error),
                        toolStats |-> S3.toolStats])

\* emitFinish(status, error): the error text if nothing was written, the
\* segment ends, the finish part
emitFinish(S, n, status, error) ==
    LET S1 == IF error # "none" /\ ~S.textStarted
              THEN emitTextDelta(S, n, ErrorText(error))
              ELSE S
        S2 == IF S1.textStarted
              THEN enqueue(S1, Part("text-end", TextId, n, "", FALSE))
              ELSE S1
        S3 == IF S2.reasoningStarted
              THEN enqueue(S2, Part("reasoning-end", ReasoningId, n, "", FALSE))
              ELSE S2
    IN  enqueue(S3, Part("finish", "", n, mapFinishReason(status), S3.reasoningStarted)
                    @@ [raw |-> mapFinishReasonRaw(status, error),
                        toolStats |-> S3.toolStats])

\* ------------------------------------------------- NotificationRouter
\* a thread comparison by strict equality, as `!==` makes it
sameThreadStrict(a, b) == a = b

sameThread(a, b) == StringOf(a) = StringOf(b)
\* a turn comparison that accepts every turn
sameTurnAny(a, b) == TRUE

sameTurn(a, b) == StringOf(a) = StringOf(b)

\* an ownership test against the turn the session tracks at the moment
OwnedBySession(n) ==
    sameThread(n.threadId, RouterThread) /\ sameTurn(n.turnId, session.turnId)

\* the ownership test every handler starts with: threadId and turnId are
\* read from the router's options once, in subscribe()
Owned(n) == sameThread(n.threadId, RouterThread) /\ sameTurn(n.turnId, RouterTurn)

\* NotificationRouter.unsubscribe(): every closure removes its handler from
\* the client's set, then the list is emptied
unsubscribe(S) ==
    Do(S, [S EXCEPT !.handlers = @ \ S.unsubscribers, !.unsubscribers = {}])

\* doStream's cleanup()
streamCleanup(S) == Do(S, [S EXCEPT !.cleanups = @ + 1])

\* doStream's onTurnCompleted callback
onTurnCompleted(S, n, status, error) ==
    LET S0 == Do(S, [S EXCEPT !.completions = @ + 1])
        S1 == Do(S0, [S0 EXCEPT !.session = [@ EXCEPT !.isActive = FALSE]])
        S2 == emitFinish(S1, n, status, error)
        S3 == close(S2)
        S4 == unsubscribe(S3)
    IN  streamCleanup(S4)

\* a text delta handler that does not record the item
handleTextDeltaUnrecorded(S, n, k) ==
    IF ~Owned(n) THEN S ELSE emitTextDelta(S, k, "delta")

handleTextDelta(S, n, k) ==
    IF ~Owned(n) THEN S
    ELSE emitTextDelta(Do(S, [S EXCEPT !.textIds = @ \cup {n.itemId}]), k, "delta")

handleReasoningDelta(S, n, k, isSummary) ==
    IF ~Owned(n) THEN S
    ELSE emitReasoningDelta(Do(S, [S EXCEPT !.reasoningIds = @ \cup {n.itemId}]),
                            k, "delta", isSummary)

\* an item/started handler that writes the tool-call before the tool input
handleItemStartedCallFirst(S, n, k) ==
    IF ~Owned(n) \/ ~isToolItem(n) THEN S
    ELSE LET toolName == resolveToolName(n)
             dynamic  == resolveToolDynamic(n)
             input    == safeJsonStringify(buildToolInputPayload(n))
             S1 == Do(S, [S EXCEPT !.activeTools = [@ EXCEPT ![n.itemId] = toolName]])
             S2 == emitToolCall(S1, k, n.itemId, toolName, input, dynamic)
         IN  emitToolInput(S2, k, n.itemId, toolName, input, dynamic)

\* ToolTracker.start(item), then the tool-input parts and the tool-call
handleItemStarted(S, n, k) ==
    IF ~Owned(n) \/ ~isToolItem(n) THEN S
    ELSE LET toolName == resolveToolName(n)
             dynamic  == resolveToolDynamic(n)
             input    == safeJsonStringify(buildToolInputPayload(n))
             S1 == Do(S, [S EXCEPT !.activeTools = [@ EXCEPT ![n.itemId] = toolName]])
             S2 == emitToolInput(S1, k, n.itemId, toolName, input, dynamic)
         IN  emitToolCall(S2, k, n.itemId, toolName, input, dynamic)

\* an item/completed handler that reports a tool only when it was tracked
handleItemCompletedTrackedOnly(S, n, k) ==
    IF ~Owned(n) \/ ~isToolItem(n) \/ S.activeTools[n.itemId] = "none" THEN S
    ELSE LET existing == S.activeTools[n.itemId]
             S1 == Do(S, [S EXCEPT !.activeTools = [@ EXCEPT ![n.itemId] = "none"]])
         IN  emitToolResult(S1, k, n.itemId, existing, buildToolResultPayload(n).isError,
                            existing = "mcp__server__tool")

\* ToolTracker.complete(item.id) and the tool-result, or the full text of an
\* agent message or reasoning item that had no delta
handleItemCompleted(S, n, k) ==
    IF ~Owned(n) THEN S
    ELSE IF isToolItem(n)
    THEN LET existing == S.activeTools[n.itemId]
             toolName == IF existing # "none" THEN existing ELSE resolveToolName(n)
             dynamic  == IF existing # "none" THEN existing = "mcp__server__tool"
                         ELSE resolveToolDynamic(n)
             S1 == Do(S, [S EXCEPT !.activeTools = [@ EXCEPT ![n.itemId] = "none"]])
         IN  emitToolResult(S1, k, n.itemId, toolName, buildToolResultPayload(n).isError,
                            dynamic)
    ELSE IF normalizeType(n.type) = "agentmessage"
    THEN IF n.itemId \notin S.textIds /\ n.text # ""
         THEN emitTextDelta(S, k, n.text)
         ELSE S
    ELSE IF normalizeType(n.type) = "reasoning"
    THEN IF n.itemId \notin S.reasoningIds
         THEN LET S1 == IF n.summary # "" THEN emitReasoningDelta(S, k, n.summary, TRUE)
                        ELSE S
              IN  IF n.text # "" THEN emitReasoningDelta(S1, k, n.text, FALSE) ELSE S1
         ELSE S
    ELSE S

handleApproval(S, n, k) ==
    IF ~Owned(n) THEN S ELSE emitApprovalRequest(S, k, n.itemId)

\* a turn/completed handler that keeps the delta-tracking sets
handleTurnCompletedKeepsSets(S, n, k) ==
    IF ~Owned(n) THEN S ELSE onTurnCompleted(S, k, n.status, n.error)

handleTurnCompleted(S, n, k) ==
    IF ~Owned(n) THEN S
    ELSE onTurnCompleted(Do(S, [S EXCEPT !.textIds = {}, !.reasoningIds = {}]),
                         k, n.status, n.error)

\* the handler subscribe() registered for n.method, applied to n
RouterHandler(S, n, k) ==
    LET S0 == emitRaw(S, k, n.method)
    IN  CASE n.method \in TextDeltaMethods -> handleTextDelta(S0, n, k)
          [] n.method \in ReasoningDeltaMethods -> handleReasoningDelta(S0, n, k, FALSE)
          [] n.method \in SummaryDeltaMethods -> handleReasoningDelta(S0, n, k, TRUE)
          [] n.method = "item/started" -> handleItemStarted(S0, n, k)
          [] n.method = "item/completed" -> handleItemCompleted(S0, n, k)
          [] n.method \in ApprovalMethods -> handleApproval(S0, n, k)
          [] OTHER -> handleTurnCompleted(S0, n, k)

\* a notification of another (thread, turn) pair than the router's
ForeignNotification(n) ==
    StringOf(n.threadId) # RouterThread \/ StringOf(n.turnId) # RouterTurn

\* no notification dispatched yet, or the last one found no handler
NoNotif == [handled |-> FALSE, foreign |-> FALSE, status |-> "none", error |-> "none"]

\* handleMessage() on a frame without id: the handlers registered for its
\* method run; an exception of a handler is caught and logged
Dispatch(n) ==
    LET handled == n.method \in notificationHandlers
        k == nseq + 1
        S == IF handled THEN RouterHandler(StreamState, n, k) ELSE StreamState
    IN  /\ SetStream(S)
        /\ nseq' = IF handled /\ Owned(n) THEN k ELSE nseq
        /\ lastNotif' = IF ~handled THEN NoNotif
                        ELSE [handled |-> TRUE, foreign |-> ForeignNotification(n),
                              status |-> IF n.method = "turn/completed"
                                         THEN n.status ELSE "none",
                              error |-> IF n.method = "turn/completed"
                                        THEN n.error ELSE "none"]
        /\ handlerErrors' = IF S.err THEN handlerErrors + 1 ELSE handlerErrors

\* the readline 'line' listener on a notification frame
NotificationLine(p, n) ==
    /\ ~MicrotaskPending
    /\ p \in procs
    /\ (n.method \in notificationHandlers /\ Owned(n)) =>
          IF n.method = "turn/completed" THEN nseq <= MaxNotifs ELSE nseq < MaxNotifs
    /\ Dispatch(n)
    /\ UNCHANGED <<clientVars, abortPc, registryVars, modelVars>>

\* ------------------------------------------------ SessionImpl, abort
\* the abort listener up to `await session.interrupt()`: interrupt()
\* returns at once when the session is idle, else it calls
\* client.interruptTurn(), which is request('turn/interrupt', ...)
Abort ==
    /\ abortPc = "armed"
    /\ IF ~session.isActive \/ session.turnId = "null"
       THEN /\ abortPc' = "awaitIdle"
            /\ UNCHANGED clientVars
       ELSE /\ abortPc' = "awaitRequest"
            /\ RequestCall(InterruptCaller, "turn/interrupt", session.turnId)
    /\ UNCHANGED <<routerVars, emitterVars, session, cleanups, handlerErrors, registryVars, modelVars>>

\* an abort listener that closes the stream and leaves the handlers
AbortResumeKeepsHandlers ==
    /\ \/ abortPc = "awaitIdle"
       \/ abortPc = "awaitRequest" /\ calls[InterruptCaller].pc = "done"
    /\ LET S0 == StreamState
           S1 == IF abortPc = "awaitRequest" /\ calls[InterruptCaller].outcome = "result"
                 THEN [S0 EXCEPT !.session = [@ EXCEPT !.isActive = FALSE]]
                 ELSE S0
           S3 == close(S1)
           S4 == streamCleanup(S3)
       IN  /\ SetStream(S4)
           /\ abortPc' = IF S4.err THEN "threw" ELSE "done"
           /\ handlerErrors' = IF S4.err THEN handlerErrors + 1 ELSE handlerErrors
    /\ UNCHANGED <<clientVars, nseq, lastNotif, registryVars, modelVars>>

\* the abort listener resumed: interrupt() marks the session idle when its
\* request resolved and throws when it was rejected (caught by the
\* listener); then unsubscribe, close, cleanup.  close() on a closed
\* controller throws out of the listener.
AbortResume ==
    /\ \/ abortPc = "awaitIdle"
       \/ abortPc = "awaitRequest" /\ calls[InterruptCaller].pc = "done"
    /\ LET S0 == StreamState
           S1 == IF abortPc = "awaitRequest" /\ calls[InterruptCaller].outcome = "result"
                 THEN [S0 EXCEPT !.session = [@ EXCEPT !.isActive = FALSE]]
                 ELSE S0
           S2 == unsubscribe(S1)
           S3 == close(S2)
           S4 == streamCleanup(S3)
       IN  /\ SetStream(S4)
           /\ abortPc' = IF S4.err THEN "threw" ELSE "done"
           /\ handlerErrors' = IF S4.err THEN handlerErrors + 1 ELSE handlerErrors
    /\ UNCHANGED <<clientVars, nseq, lastNotif, registryVars, modelVars>>

\* ---------------------------------------------------------------- Init
\* the client as constructed
InitConstructed ==
    /\ process = 0
    /\ procs = {}
    /\ spawned = 0
    /\ epochSpawns = 0
    /\ handshakes = 0
    /\ initialized = FALSE
    /\ starting = "null"

\* the client in the state the end of start() establishes: one subprocess,
\* one initialize request answered, this.initialized set and the promise in
\* this.starting resolved.  Every request that reaches the wire, and so
\* every turn, presupposes this state.
InitStarted ==
    /\ process = 1
    /\ procs = {1}
    /\ spawned = 1
    /\ epochSpawns = 1
    /\ handshakes = 1
    /\ initialized = TRUE
    /\ starting = "resolved"

InitRequests ==
    /\ pendingRequests = {}
    /\ timers = {}
    /\ owner = [i \in RequestIds |-> -1]
    /\ nextId = 1
    /\ calls = [c \in Callers |-> NoCall]
    /\ wire = {}
    /\ nlines = 0
    /\ lastFrame = NoFrame
    /\ disposeCalls = 0

\* no turn is streaming
NoStream ==
    /\ notificationHandlers = {}
    /\ unsubscribers = {}
    /\ activeTools = [i \in ItemIds |-> "none"]
    /\ textItemIdsWithDelta = {}
    /\ reasoningItemIdsWithDelta = {}
    /\ completions = 0
    /\ nseq = 0
    /\ lastNotif = NoNotif
    /\ out = <<>>
    /\ ctrlClosed = FALSE
    /\ closeCalls = 0
    /\ textStarted = FALSE
    /\ reasoningStarted = FALSE
    /\ includeRawChunks = FALSE
    /\ toolStats = NoToolStats
    /\ modelId = DefaultModel
    /\ warnings = NoWarnings
    /\ session = [turnId |-> "null", isActive |-> FALSE]
    /\ abortPc = "none"
    /\ cleanups = 0
    /\ handlerErrors = 0

\* doStream() calls of one run of the language model
MaxDoStreams == 2
DoStreamCalls == 1 .. MaxDoStreams

\* a doStream() call not made yet
NoDoStreamCall ==
    [pc |-> "idle", mode |-> "none", threadId |-> 0, threadRequest |-> "none",
     error |-> "none", tempFilesCleaned |-> 0, stream |-> FALSE, subscribed |-> FALSE]

\* a model that has streamed nothing yet
NoDoStream ==
    /\ currentSession = 0
    /\ doStreams = [d \in DoStreamCalls |-> NoDoStreamCall]
    /\ nextThread = 1

\* no handler of the client's users
NoRegistry ==
    /\ methodHandlers = <<>>
    /\ handlerKind = [h \in {} |-> "return"]
    /\ passLog = <<>>
    /\ passes = 0
    /\ subscriptions = 0

Init ==
    /\ InitConstructed \/ InitStarted
    /\ InitRequests
    /\ NoStream
    /\ NoRegistry
    /\ NoDoStream

Next ==
    \/ (\E c \in UserCallers : RequestCall(c, "thread/start", "none")) /\ UNCHANGED streamVars
    \/ (\E c \in UserCallers : RequestResume(c)) /\ UNCHANGED streamVars
    \/ (\E id \in RequestIds : Timeout(id)) /\ UNCHANGED streamVars
    \/ (\E p \in 1 .. MaxProcs, id \in FrameIds, k \in FrameKinds : ResponseLine(p, id, k))
          /\ UNCHANGED streamVars
    \/ (\E p \in 1 .. MaxProcs : MalformedLine(p)) /\ UNCHANGED streamVars
    \/ (\E p \in 1 .. MaxProcs : ProcessExit(p)) /\ UNCHANGED streamVars
    \/ (\E p \in 1 .. MaxProcs : ProcessError(p)) /\ UNCHANGED streamVars
    \/ Dispose /\ UNCHANGED streamVars

Spec == Init /\ [][Next]_vars

\* doStream after turn/start succeeded, at the end of the stream's start
\* callback: session._setTurnId(turnId), emitStreamStart(), router.subscribe()
\* and the abort listener added
subscribe(S) ==
    [S EXCEPT !.handlers = @ \cup RouterMethods, !.unsubscribers = @ \cup RouterMethods]

\* doStream's stream for warnings w, model id m and options.includeRawChunks
doStreamStartedRaw(w, m, raw) ==
    /\ InitStarted
    /\ InitRequests
    /\ warnings = w
    /\ modelId = m
    /\ activeTools = [i \in ItemIds |-> "none"]
    /\ textItemIdsWithDelta = {}
    /\ reasoningItemIdsWithDelta = {}
    /\ completions = 0
    /\ nseq = 0
    /\ lastNotif = NoNotif
    /\ ctrlClosed = FALSE
    /\ closeCalls = 0
    /\ textStarted = FALSE
    /\ reasoningStarted = FALSE
    /\ includeRawChunks = raw
    /\ session = [turnId |-> RouterTurn, isActive |-> TRUE]
    /\ abortPc = "armed"
    /\ cleanups = 0
    /\ handlerErrors = 0
    /\ NoRegistry
    /\ NoDoStream
    /\ toolStats = NoToolStats
    /\ LET S0 == [out |-> <<>>, closed |-> FALSE, err |-> FALSE, raw |-> raw,
                  modelId |-> m, handlers |-> {}, unsubscribers |-> {}]

           S1 == subscribe(emitStreamStart(S0, w))
       IN  /\ out = S1.out
           /\ notificationHandlers = S1.handlers
           /\ unsubscribers = S1.unsubscribers

\* the same without raw chunks, the default
doStreamStarted(w, m) == doStreamStartedRaw(w, m, FALSE)

InitStream == doStreamStarted(NoWarnings, DefaultModel)

\* the same for any warnings and any model id
InitOptions == \E w \in WarningLists, m \in ModelIds : doStreamStarted(w, m)

NextStream ==
    \/ \E p \in 1 .. MaxProcs, n \in StreamNotifications : NotificationLine(p, n)
    \/ Abort
    \/ AbortResume
    \/ RequestResume(InterruptCaller) /\ UNCHANGED streamVars
    \/ (\E p \in 1 .. MaxProcs, id \in pendingRequests, k \in FrameKinds : ResponseLine(p, id, k))
          /\ UNCHANGED streamVars
    \/ (\E id \in RequestIds : Timeout(id)) /\ UNCHANGED streamVars
    \/ (\E p \in 1 .. MaxProcs : ProcessExit(p)) /\ UNCHANGED streamVars
    \/ (\E p \in 1 .. MaxProcs : ProcessError(p)) /\ UNCHANGED streamVars

SpecStream == InitStream /\ [][NextStream]_vars

\* the same turn with the steps the event loop is bound to take: a resumed
\* caller runs (microtasks), an armed timer fires.  Stdout lines, the exit
\* of the subprocess and the abort signal are the environment's to give.
FairStream ==
    /\ WF_vars(AbortResume)
    /\ WF_vars(RequestResume(InterruptCaller) /\ UNCHANGED streamVars)
    /\ \A id \in RequestIds : WF_vars(Timeout(id) /\ UNCHANGED streamVars)

SpecStreamFair == SpecStream /\ FairStream

\* the router and the emitter alone: the turn's notifications, none of the
\* abort listener or the subprocess' other events
NextRouter ==
    \E p \in 1 .. MaxProcs, n \in RouterNotifications : NotificationLine(p, n)

SpecRouter == InitStream /\ [][NextRouter]_vars

\* the notifications of the router's own (thread, turn) pair with both ids
\* as strings, and the same with one id or both as numbers
OwnStringNotifications ==
    {n \in RouterNotifications : n.threadId = RouterThread /\ n.turnId = RouterTurn}
NumericSpellings ==
    {sp \in {RouterThread, NumericThread} \X {RouterTurn, "num5"} :
        sp[1] # RouterThread \/ sp[2] # RouterTurn}
NumericNotifications ==
    {[n EXCEPT !.threadId = sp[1], !.turnId = sp[2]] :
        n \in OwnStringNotifications, sp \in NumericSpellings}

\* item/started and item/completed of the router's own pair about a tool
\* item of any of the four types, with its exit code and its error
ToolNotification(m, id, ty, ec, er) ==
    [method |-> m, threadId |-> RouterThread, turnId |-> RouterTurn,
     itemId |-> id, type |-> ty, text |-> "", summary |-> "",
     status |-> "completed", error |-> "none", exitCode |-> ec, itemError |-> er]
ToolNotifications ==
    {ToolNotification(m, id, ty, ec, er) :
        m \in {"item/started", "item/completed"}, id \in ItemIds,
        ty \in ToolItemTypes, ec \in ExitCodes, er \in ItemErrors}

\* a turn of tool items only
NextTool ==
    \E p \in 1 .. MaxProcs, n \in ToolNotifications : NotificationLine(p, n)

SpecTool == InitStream /\ [][NextTool]_vars

\* turn.status as a turn/completed may carry it: the statuses of TurnStatuses,
\* a capitalised spelling and the property left out
FinishStatuses == TurnStatuses \cup {"Completed", "undefined"}

\* the deltas of the router's own turn and its completion with any status
FinishNotifications ==
    {[method |-> m, threadId |-> RouterThread, turnId |-> RouterTurn,
      itemId |-> "i1", type |-> "userMessage", text |-> "", summary |-> "",
      status |-> "completed", error |-> "none"] :
        m \in {"item/agentMessage/delta", "item/reasoning/textDelta"}}
    \cup {[method |-> "turn/completed", threadId |-> RouterThread, turnId |-> RouterTurn,
           itemId |-> "i1", type |-> "userMessage", text |-> "", summary |-> "",
           status |-> st, error |-> e] : st \in FinishStatuses, e \in TurnErrors}

\* a turn of deltas that ends with any status
NextFinish ==
    \E p \in 1 .. MaxProcs, n \in FinishNotifications : NotificationLine(p, n)

SpecFinish == InitOptions /\ [][NextFinish]_vars


\* ------------------------------------------- StreamEmitter, direct
\* the texts a caller hands to emitReasoningDelta
DeltaTexts == {"", "Hello world", "Summary text", "[summary] x"}

\* a method of the emitter called by its holder; an exception it throws is
\* the caller's
EmitterCall(S) ==
    /\ nseq < MaxNotifs
    /\ SetStream(S)
    /\ nseq' = nseq + 1
    /\ handlerErrors' = IF S.err THEN handlerErrors + 1 ELSE handlerErrors
    /\ UNCHANGED <<clientVars, lastNotif, abortPc, registryVars, modelVars>>

EmitReasoningDelta(text, isSummary) ==
    EmitterCall(emitReasoningDelta(StreamState, nseq + 1, text, isSummary))

EmitFinish(status, error) ==
    EmitterCall(emitFinish(StreamState, nseq + 1, status, error))

NextEmitter ==
    \/ \E text \in DeltaTexts, isSummary \in BOOLEAN : EmitReasoningDelta(text, isSummary)
    \/ \E status \in FinishStatuses, error \in TurnErrors : EmitFinish(status, error)

SpecEmitter == InitOptions /\ [][NextEmitter]_vars

\* a turn whose notifications all carry a numeric thread id or turn id
NextNumeric ==
    \E p \in 1 .. MaxProcs, n \in NumericNotifications : NotificationLine(p, n)

SpecNumeric == InitStream /\ [][NextNumeric]_vars

\* ------------------------------------------------- SessionImpl, direct
\* SessionImpl.threadId
SessionThread == RouterThread

\* injectMessage(), up to `await this.client.startTurn(...)`
Inject(c) ==
    /\ RequestCall(c, "turn/start", SessionThread)
    /\ UNCHANGED streamVars

\* an injectMessage() that takes the returned turn whatever startTurn did
InjectResumeAdoptsAlways(c) ==
    /\ calls[c].pc = "done"
    /\ calls[c].method = "turn/start"
    /\ \E t \in TurnIds :
          /\ session' = [turnId |-> t, isActive |-> TRUE]
          /\ calls' = [calls EXCEPT ![c] = [@ EXCEPT !.pc = "returned", !.result = t]]
    /\ UNCHANGED <<process, procs, spawned, disposeCalls, epochSpawns, handshakes, initialized,
                   starting, pendingRequests, timers, owner, nextId, wire, nlines,
                   lastFrame>>
    /\ UNCHANGED <<routerVars, emitterVars, abortPc, cleanups, handlerErrors, registryVars, modelVars>>

\* injectMessage() resumed: a rejected startTurn() throws out of it; else
\* the turn of the result is adopted when it is not the tracked one
InjectResume(c) ==
    /\ calls[c].pc = "done"
    /\ calls[c].method = "turn/start"
    /\ IF calls[c].outcome = "result"
       THEN \E t \in TurnIds :
               /\ session' = IF t # session.turnId
                             THEN [turnId |-> t, isActive |-> TRUE]
                             ELSE session
               /\ calls' = [calls EXCEPT ![c] = [@ EXCEPT !.pc = "returned",
                                                          !.result = t]]
       ELSE /\ session' = session
            /\ calls' = [calls EXCEPT ![c] = [@ EXCEPT !.pc = "threw"]]
    /\ UNCHANGED <<process, procs, spawned, disposeCalls, epochSpawns, handshakes, initialized,
                   starting, pendingRequests, timers, owner, nextId, wire, nlines,
                   lastFrame>>
    /\ UNCHANGED <<routerVars, emitterVars, abortPc, cleanups, handlerErrors, registryVars, modelVars>>

\* interrupt(), up to `await this.client.interruptTurn(...)`; it returns at
\* once when the session is idle
Interrupt ==
    /\ calls[InterruptCaller].pc = "idle"
    /\ IF ~session.isActive \/ session.turnId = "null"
       THEN /\ calls' = [calls EXCEPT ![InterruptCaller] = [@ EXCEPT !.pc = "returned"]]
            /\ UNCHANGED <<process, procs, spawned, disposeCalls, epochSpawns, handshakes,
                           initialized, starting, pendingRequests, timers, owner,
                           nextId, wire, nlines, lastFrame>>
       ELSE RequestCall(InterruptCaller, "turn/interrupt", session.turnId)
    /\ UNCHANGED streamVars

\* interrupt() resumed: a rejected interruptTurn() throws out of it, past
\* the assignment to _isActive
InterruptResume ==
    /\ calls[InterruptCaller].pc = "done"
    /\ calls[InterruptCaller].method = "turn/interrupt"
    /\ IF calls[InterruptCaller].outcome = "result"
       THEN /\ session' = [session EXCEPT !.isActive = FALSE]
            /\ calls' = [calls EXCEPT ![InterruptCaller] = [@ EXCEPT !.pc = "returned"]]
       ELSE /\ session' = session
            /\ calls' = [calls EXCEPT ![InterruptCaller] = [@ EXCEPT !.pc = "threw"]]
    /\ UNCHANGED <<process, procs, spawned, disposeCalls, epochSpawns, handshakes, initialized,
                   starting, pendingRequests, timers, owner, nextId, wire, nlines,
                   lastFrame>>
    /\ UNCHANGED <<routerVars, emitterVars, abortPc, cleanups, handlerErrors, registryVars, modelVars>>

\* a session of a started client: fresh, streaming turn "5", or idle after it
SessionStates ==
    {[turnId |-> "null", isActive |-> FALSE],
     [turnId |-> RouterTurn, isActive |-> TRUE],
     [turnId |-> RouterTurn, isActive |-> FALSE]}

InitSession ==
    /\ InitStarted
    /\ InitRequests
    /\ notificationHandlers = {}
    /\ unsubscribers = {}
    /\ activeTools = [i \in ItemIds |-> "none"]
    /\ textItemIdsWithDelta = {}
    /\ reasoningItemIdsWithDelta = {}
    /\ completions = 0
    /\ nseq = 0
    /\ lastNotif = NoNotif
    /\ out = <<>>
    /\ ctrlClosed = FALSE
    /\ closeCalls = 0
    /\ textStarted = FALSE
    /\ reasoningStarted = FALSE
    /\ includeRawChunks = FALSE
    /\ toolStats = NoToolStats
    /\ modelId = DefaultModel
    /\ warnings = NoWarnings
    /\ session \in SessionStates
    /\ abortPc = "none"
    /\ cleanups = 0
    /\ handlerErrors = 0
    /\ NoRegistry
    /\ NoDoStream

NextSession ==
    \/ \E c \in UserCallers : Inject(c)
    \/ \E c \in UserCallers : InjectResume(c)
    \/ Interrupt
    \/ InterruptResume
    \/ (\E c \in Callers : RequestResume(c)) /\ UNCHANGED streamVars
    \/ (\E p \in 1 .. MaxProcs, id \in pendingRequests, k \in FrameKinds : ResponseLine(p, id, k))
          /\ UNCHANGED streamVars
    \/ (\E id \in RequestIds : Timeout(id)) /\ UNCHANGED streamVars
    \/ (\E p \in 1 .. MaxProcs : ProcessExit(p)) /\ UNCHANGED streamVars

SpecSession == InitSession /\ [][NextSession]_vars

\* =================================================================
\* Notification handlers of the client's users
\* =================================================================

\* ---------------------------------------------------------------- bounds
\* onNotification() calls on the method
MaxHandlers == 3

HandlerIds == 1 .. MaxHandlers

\* what a handler does when invoked: it returns, it throws, or it calls the
\* unsubscribe closure of a handler (its own or another one's) and returns
HandlerKinds ==
    {[op |-> "return", target |-> 0], [op |-> "throw", target |-> 0]}
    \cup {[op |-> "remove", target |-> t] : t \in HandlerIds}

Registered == {methodHandlers[i] : i \in DOMAIN methodHandlers}

\* Set.delete(h)
SetDelete(set, h) == SelectSeq(set, LAMBDA x : x # h)

\* onNotification(m, handler) with a new function: the handler, numbered
\* by its registration, is added at the end of the Set
OnNotification(kind) ==
    /\ subscriptions < MaxHandlers
    /\ subscriptions' = subscriptions + 1
    /\ LET h == subscriptions + 1
       IN  /\ methodHandlers' = Append(methodHandlers, h)
           /\ handlerKind' = [x \in Registered \cup {h} |->
                                 IF x = h THEN kind ELSE handlerKind[x]]
    /\ UNCHANGED <<clientVars, routerVars, emitterVars, turnVars, modelVars, passLog, passes>>

\* the closure onNotification() returned, called between two dispatches
Unsubscribe(h) ==
    /\ h \in Registered
    /\ methodHandlers' = SetDelete(methodHandlers, h)
    /\ handlerKind' = [x \in Registered \ {h} |-> handlerKind[x]]
    /\ UNCHANGED <<clientVars, routerVars, emitterVars, turnVars, modelVars, passLog, passes,
                   subscriptions>>

RECURSIVE dispatchPassStopsAtThrow(_, _, _, _)
\* a loop without try/catch around the handler: the first exception ends it
dispatchPassStopsAtThrow(remaining, set, log, errs) ==
    IF remaining = <<>> \/ errs > 0
    THEN [handlers |-> set, log |-> log, errs |-> errs]
    ELSE LET h == Head(remaining)
             k == handlerKind[h]
             set1 == IF k.op = "remove" THEN SetDelete(set, k.target) ELSE set
             rem1 == IF k.op = "remove" THEN SetDelete(Tail(remaining), k.target)
                     ELSE Tail(remaining)
         IN  dispatchPassStopsAtThrow(rem1, set1, Append(log, h),
                                      IF k.op = "throw" THEN errs + 1 ELSE errs)

RECURSIVE dispatchPass(_, _, _, _)
\* `for (const handler of handlers) { try { handler(params) } catch {...} }`:
\* the loop walks the live Set in insertion order, so an entry deleted
\* before the loop reaches it is not visited; an exception is logged
dispatchPass(remaining, set, log, errs) ==
    IF remaining = <<>>
    THEN [handlers |-> set, log |-> log, errs |-> errs]
    ELSE LET h == Head(remaining)
             k == handlerKind[h]
             set1 == IF k.op = "remove" THEN SetDelete(set, k.target) ELSE set
             rem1 == IF k.op = "remove" THEN SetDelete(Tail(remaining), k.target)
                     ELSE Tail(remaining)
         IN  dispatchPass(rem1, set1, Append(log, h),
                          IF k.op = "throw" THEN errs + 1 ELSE errs)

\* the readline 'line' listener on a notification of the method
MethodNotificationLine(p) ==
    /\ ~MicrotaskPending
    /\ p \in procs
    /\ nlines < MaxLines
    /\ nlines' = nlines + 1
    /\ LET r == dispatchPass(methodHandlers, methodHandlers, <<>>, 0)
       IN  /\ methodHandlers' = r.handlers
           /\ handlerKind' = [x \in {r.handlers[i] : i \in DOMAIN r.handlers} |->
                                 handlerKind[x]]
           /\ passLog' = r.log
           /\ handlerErrors' = handlerErrors + r.errs
    /\ passes' = passes + 1
    /\ UNCHANGED subscriptions
    /\ UNCHANGED <<process, procs, spawned, disposeCalls, epochSpawns, handshakes, initialized,
                   starting, pendingRequests, timers, owner, nextId, calls, wire,
                   lastFrame>>
    /\ UNCHANGED <<routerVars, emitterVars, session, abortPc, cleanups, modelVars>>

InitDispatch ==
    /\ InitStarted
    /\ InitRequests
    /\ NoStream
    /\ NoRegistry
    /\ NoDoStream

NextDispatch ==
    \/ \E kind \in HandlerKinds : OnNotification(kind)
    \/ \E h \in HandlerIds : Unsubscribe(h)
    \/ \E p \in 1 .. MaxProcs : MethodNotificationLine(p)

SpecDispatch == InitDispatch /\ [][NextDispatch]_vars

\* ------------------------- CodexAppServerLanguageModel.doStream, setup
\* threadMode of a call, "resume" being the persistent mode of a model whose
\* settings name a thread to resume
ThreadModes == {"persistent", "stateless", "resume"}
\* settings.resume
ResumeId == 9
\* how the promise of client.startThread(), resumeThread() or startTurn()
\* settles: the response's result, or rejected with the response's error,
\* the timeout error or the connection-closed error
RequestOutcomes == {"result", "error", "timeout", "closed"}

\* the handlers registered with the transport: those of the routers of the
\* calls that subscribed and have not unsubscribed
HandlersOf(ds) == IF \E d \in DoStreamCalls : ds[d].subscribed THEN RouterMethods ELSE {}

\* what a doStream step leaves alone
doStreamFrame ==
    UNCHANGED <<clientVars, unsubscribers, activeTools, textItemIdsWithDelta,
                reasoningItemIdsWithDelta, completions, nseq, lastNotif, emitterVars,
                turnVars, registryVars>>

\* doStream() up to its first await on the client: a stateless call, and a
\* persistent one of a model without session, start a thread; a call with a
\* resume setting resumes that thread; otherwise the thread of the current
\* session is taken, a new session made of it and turn/start requested
DoStream(d, mode) ==
    /\ doStreams[d].pc = "idle"
    /\ d > 1 => doStreams[d - 1].pc # "idle"
    /\ IF mode = "stateless" \/ (mode = "persistent" /\ currentSession = 0)
       THEN doStreams' = [doStreams EXCEPT ![d] = [@ EXCEPT !.pc = "awaitThread",
                              !.mode = mode, !.threadRequest = "thread/start"]]
       ELSE IF mode = "resume"
       THEN doStreams' = [doStreams EXCEPT ![d] = [@ EXCEPT !.pc = "awaitThread",
                              !.mode = mode, !.threadRequest = "thread/resume"]]
       ELSE doStreams' = [doStreams EXCEPT ![d] = [@ EXCEPT !.pc = "awaitTurn",
                              !.mode = mode, !.threadId = currentSession]]
    /\ notificationHandlers' = notificationHandlers
    /\ UNCHANGED <<currentSession, nextThread>>
    /\ doStreamFrame

\* a setup that rethrows without cleaning the temporary files up
ThreadSettledNoCleanup(d, outcome) ==
    /\ doStreams[d].pc = "awaitThread"
    /\ IF outcome = "result"
       THEN LET tid == IF doStreams[d].threadRequest = "thread/resume"
                       THEN ResumeId ELSE nextThread
            IN  /\ doStreams' = [doStreams EXCEPT ![d] = [@ EXCEPT !.pc = "awaitTurn",
                                                              !.threadId = tid]]
                /\ currentSession' = tid
                /\ nextThread' = IF tid = nextThread THEN nextThread + 1 ELSE nextThread
       ELSE /\ doStreams' = [doStreams EXCEPT ![d] = [@ EXCEPT !.pc = "rejected",
                                                          !.error = outcome]]
            /\ UNCHANGED <<currentSession, nextThread>>
    /\ notificationHandlers' = notificationHandlers
    /\ doStreamFrame

\* doStream() resumed after startThread() or resumeThread(): with a thread,
\* the session is made and becomes the model's current one, and turn/start
\* is requested; a rejection runs cleanupTempFiles() and is rethrown
ThreadSettled(d, outcome) ==
    /\ doStreams[d].pc = "awaitThread"
    /\ IF outcome = "result"
       THEN LET tid == IF doStreams[d].threadRequest = "thread/resume"
                       THEN ResumeId ELSE nextThread
            IN  /\ doStreams' = [doStreams EXCEPT ![d] = [@ EXCEPT !.pc = "awaitTurn",
                                                              !.threadId = tid]]
                /\ currentSession' = tid
                /\ nextThread' = IF tid = nextThread THEN nextThread + 1 ELSE nextThread
       ELSE /\ doStreams' = [doStreams EXCEPT ![d] = [@ EXCEPT !.pc = "rejected",
                                  !.error = outcome, !.tempFilesCleaned = @ + 1]]
            /\ UNCHANGED <<currentSession, nextThread>>
    /\ notificationHandlers' = notificationHandlers
    /\ doStreamFrame

\* doStream() resumed after startTurn(): the stream is made, whose start
\* callback subscribes the router, and returned; a rejection runs
\* cleanupTempFiles() and is rethrown
TurnSettled(d, outcome) ==
    /\ doStreams[d].pc = "awaitTurn"
    /\ doStreams' = [doStreams EXCEPT ![d] =
          IF outcome = "result"
          THEN [@ EXCEPT !.pc = "streaming", !.stream = TRUE, !.subscribed = TRUE]
          ELSE [@ EXCEPT !.pc = "rejected", !.error = outcome,
                         !.tempFilesCleaned = @ + 1]]
    /\ notificationHandlers' = HandlersOf(doStreams')
    /\ UNCHANGED <<currentSession, nextThread>>
    /\ doStreamFrame

\* the end of a call's stream, by its turn/completed or by the abort
\* listener: router.unsubscribe() and doStream's cleanup(), which clears the
\* model's current session when the call was stateless
StreamEnds(d) ==
    /\ doStreams[d].pc = "streaming"
    /\ doStreams' = [doStreams EXCEPT ![d] = [@ EXCEPT !.pc = "ended",
                          !.subscribed = FALSE, !.tempFilesCleaned = @ + 1]]
    /\ notificationHandlers' = HandlersOf(doStreams')
    /\ currentSession' = IF doStreams[d].mode = "stateless" THEN 0 ELSE currentSession
    /\ UNCHANGED nextThread
    /\ doStreamFrame

InitModel ==
    /\ InitStarted
    /\ InitRequests
    /\ NoStream
    /\ NoRegistry
    /\ NoDoStream

NextModel ==
    \/ \E d \in DoStreamCalls, mode \in ThreadModes : DoStream(d, mode)
    \/ \E d \in DoStreamCalls, outcome \in RequestOutcomes : ThreadSettled(d, outcome)
    \/ \E d \in DoStreamCalls, outcome \in RequestOutcomes : TurnSettled(d, outcome)
    \/ \E d \in DoStreamCalls : StreamEnds(d)

SpecModel == InitModel /\ [][NextModel]_vars

\* ------------------- doStream, from startTurn() to router.subscribe()
\* the request() call doStream makes through client.startTurn()
DoStreamCaller == 1

\* `await client.startTurn(turnParams)`, up to the first await of request()
StartTurn ==
    /\ abortPc = "none"
    /\ RequestCall(DoStreamCaller, "turn/start", RouterThread)
    /\ UNCHANGED streamVars

\* the response frame of turn/start settled the promise and the code after
\* `await client.startTurn()` has not run yet: it is a microtask, and the
\* readline interface emits the 'line' events of one stdout chunk in a loop,
\* so the lines that follow the response in its chunk are handled first
ChunkOpen ==
    /\ calls[DoStreamCaller].pc = "done"
    /\ calls[DoStreamCaller].method = "turn/start"
    /\ calls[DoStreamCaller].by # {}

\* the frame of a notification line: whether it is of the turn turn/start
\* created, and whether a handler was registered for its method
NotificationFrame(n) ==
    [id |-> 0, kind |-> IF Owned(n) THEN "notification" ELSE "foreign",
     found |-> n.method \in notificationHandlers, caller |-> -1]

\* the readline 'line' listener on a notification frame, a line of a new
\* chunk or the next line of the chunk being read
ChunkNotificationLine(p, n) ==
    /\ ~MicrotaskPending \/ ChunkOpen
    /\ p \in procs
    /\ nlines < MaxLines
    /\ nlines' = nlines + 1
    /\ lastFrame' = NotificationFrame(n)
    /\ Dispatch(n)
    /\ UNCHANGED <<process, procs, spawned, disposeCalls, epochSpawns, handshakes,
                   initialized, starting, pendingRequests, timers, owner,
                   nextId, calls, wire>>
    /\ UNCHANGED <<abortPc, registryVars, modelVars>>

\* doStream resumed after `await client.startTurn()`: a rejection runs the
\* catch block (cleanupTempFiles, rethrow); a result gives the turn id,
\* session._setTurnId(turnId), and the stream's start callback runs
\* emitStreamStart(warnings), router.subscribe() and adds the abort listener
DoStreamResume ==
    /\ calls[DoStreamCaller].pc = "done"
    /\ calls[DoStreamCaller].method = "turn/start"
    /\ abortPc = "none"
    /\ IF calls[DoStreamCaller].outcome = "result"
       THEN /\ LET S0 == [StreamState EXCEPT
                             !.session = [turnId |-> RouterTurn, isActive |-> TRUE]]
               IN  SetStream(subscribe(emitStreamStart(S0, warnings)))
            /\ abortPc' = "armed"
            /\ calls' = [calls EXCEPT ![DoStreamCaller] =
                            [@ EXCEPT !.pc = "returned", !.result = RouterTurn]]
       ELSE /\ SetStream(streamCleanup(StreamState))
            /\ abortPc' = abortPc
            /\ calls' = [calls EXCEPT ![DoStreamCaller] = [@ EXCEPT !.pc = "threw"]]
    /\ UNCHANGED <<process, procs, spawned, disposeCalls, epochSpawns, handshakes,
                   initialized, starting, pendingRequests, timers, owner, nextId,
                   wire, nlines, lastFrame>>
    /\ UNCHANGED <<nseq, lastNotif, handlerErrors, registryVars, modelVars>>

NextSetup ==
    \/ StartTurn
    \/ RequestResume(DoStreamCaller) /\ UNCHANGED streamVars
    \/ (\E p \in 1 .. MaxProcs, id \in pendingRequests, k \in FrameKinds : ResponseLine(p, id, k))
          /\ UNCHANGED streamVars
    \/ \E p \in 1 .. MaxProcs, n \in StreamNotifications : ChunkNotificationLine(p, n)
    \/ DoStreamResume
    \/ (\E id \in RequestIds : Timeout(id)) /\ UNCHANGED streamVars

SpecSetup == InitModel /\ [][NextSetup]_vars

\* ------------------------------------------- the consumer cancels
\* reader.cancel() on the stream doStream returned: the stream is closed, so
\* that controller.enqueue() and controller.close() throw from then on, and
\* the underlying source's `cancel: () => {}` runs, which does nothing
Cancel ==
    /\ ~MicrotaskPending
    /\ ~ctrlClosed
    /\ ctrlClosed' = TRUE
    /\ UNCHANGED <<out, closeCalls, textStarted, reasoningStarted, includeRawChunks,
                   toolStats, modelId, warnings>>
    /\ UNCHANGED <<clientVars, routerVars, turnVars, registryVars, modelVars>>

NextCancel ==
    \/ \E p \in 1 .. MaxProcs, n \in StreamNotifications : NotificationLine(p, n)
    \/ Cancel

SpecCancel == InitStream /\ [][NextCancel]_vars

\* ------------------------------------------------- includeRawChunks
\* raw parts of one stream
MaxRawParts == 3

RawParts(o) == {i \in 1 .. Len(o) : o[i].type = "raw"}

\* a stream whose caller asked for raw chunks
InitRaw == doStreamStartedRaw(NoWarnings, DefaultModel, TRUE)

\* a notification line while the stream is short of MaxRawParts raw parts
RawNotificationLine(p, n) ==
    /\ Cardinality(RawParts(out)) < MaxRawParts
    /\ NotificationLine(p, n)

NextRaw ==
    \E p \in 1 .. MaxProcs, n \in StreamNotifications : RawNotificationLine(p, n)

SpecRaw == InitRaw /\ [][NextRaw]_vars

\* ------------------------- injectMessage() while the turn is streamed
\* the session doStream handed out through onSessionCreated is used while
\* the stream of its turn is open: messages are injected, the abort listener
\* calls session.interrupt()
\* the caller of session.injectMessage()
InjectCaller == 1

\* text deltas and completions of the streamed turn and of another turn
InjectNotifications ==
    {n \in StreamNotifications :
        /\ n.method \in {"item/agentMessage/delta", "turn/completed"}
        /\ n.status = "completed"
        /\ n.error = "none"}

NextInject ==
    \/ \E p \in 1 .. MaxProcs, n \in InjectNotifications : NotificationLine(p, n)
    \/ Inject(InjectCaller)
    \/ InjectResume(InjectCaller)
    \/ Abort
    \/ AbortResume
    \/ (\E c \in {InterruptCaller, InjectCaller} : RequestResume(c)) /\ UNCHANGED streamVars
    \/ (\E p \in 1 .. MaxProcs, id \in pendingRequests, k \in FrameKinds : ResponseLine(p, id, k))
          /\ UNCHANGED streamVars


SpecInject == InitStream /\ [][NextInject]_vars


\* =================================================================
\* Properties of the transport client (specification Spec)
\* =================================================================

\* C1: a response frame settles only the request whose id equals the
\* frame's id, and at most once: the frames whose handling resolved or
\* rejected a call's promise all carry the id request() generated for that
\* call, there is at most one of them, and a call that ended with a result
\* or an error response was settled by exactly that frame.
C1_ResponseSettlesOwnRequest ==
    /\ \A c \in Callers :
        /\ calls[c].by \subseteq {calls[c].id}
        /\ calls[c].outcome \in {"result", "error"} =>
              /\ calls[c].by = {calls[c].id}
              /\ calls[c].settles = 1
    /\ lastFrame.found => /\ lastFrame.caller \in Callers
                          /\ calls[lastFrame.caller].id = lastFrame.id

\* two requests were outstanding together, a response settled one of them
\* and the other is still pending
C1_Witness ==
    \E c, d \in Callers :
        /\ c # d
        /\ calls[c].outcome \in {"result", "error"}
        /\ lastFrame.found /\ lastFrame.caller = c
        /\ calls[d].pc = "pending" /\ calls[d].id \in pendingRequests

\* C2: the timer of a pending request rejects it with the timeout error and
\* removes its entry; no other entry, timer or call changes; a response that
\* arrives after the timeout finds no entry and settles nothing.
C2_TimeoutStep(id) ==
    /\ id \notin pendingRequests'
    /\ id \notin timers'
    /\ calls[owner[id]].pc = "pending" =>
          /\ calls'[owner[id]].outcome = "timeout"
          /\ calls'[owner[id]].settles = 1
    /\ pendingRequests' = pendingRequests \ {id}
    /\ timers' = timers \ {id}
    /\ \A c \in Callers \ {owner[id]} : calls'[c] = calls[c]

C2_TimedOutStaysTimedOut ==
    \A c \in Callers : calls[c].outcome = "timeout" =>
        /\ calls[c].timeoutMs = 60000
        /\ calls[c].id \notin pendingRequests
        /\ calls[c].by = {}
        /\ calls[c].settles = 1

C2_TimeoutRejectsOnlyItsRequest ==
    [][ /\ \A id \in RequestIds : Timeout(id) => C2_TimeoutStep(id)
        /\ C2_TimedOutStaysTimedOut' ]_vars

\* a request timed out while another one stayed pending, and a response
\* carrying the timed-out id arrived afterwards and found no entry
C2_Witness ==
    \E c, d \in Callers :
        /\ c # d
        /\ calls[c].outcome = "timeout"
        /\ lastFrame.id = calls[c].id /\ ~lastFrame.found
        /\ calls[d].pc = "pending" /\ calls[d].id \in pendingRequests

\* C3: between two cleanups the subprocess is spawned once and the
\* initialize handshake performed once, whoever calls ensureStarted().
C3_StartsOnce ==
    /\ epochSpawns <= 1
    /\ handshakes <= 1

\* C4: a subprocess exit or error rejects every pending request with the
\* connection-closed error and empties the pending table; the request()
\* after it spawns one subprocess anew.
C4_ExitStep ==
    /\ pendingRequests' = {}
    /\ \A id \in pendingRequests :
          calls[owner[id]].pc = "pending" => calls'[owner[id]].outcome = "closed"

\* the request after an exit: some subprocess has gone, none is known
C4_RestartStep ==
    (~initialized /\ starting = "null" /\ Cardinality(procs) < spawned /\ process = 0
        /\ spawned < MaxProcs)
    => epochSpawns' = 1

C4_ExitRejectsAllThenRestarts ==
    [][ /\ \A p \in 1 .. MaxProcs : (ProcessExit(p) \/ ProcessError(p)) => C4_ExitStep
        /\ \A c \in UserCallers : RequestCall(c, "thread/start", "none") => C4_RestartStep ]_vars

\* =================================================================
\* Properties of the router and the emitter (specification SpecRouter)
\* =================================================================
PartsOf(type) == {i \in DOMAIN out : out[i].type = type}

\* a segment of the output: its start precedes every delta and the end,
\* carries their id, and start and end are written at most once; no delta
\* follows the end
SegmentWellFormed(startT, deltaT, endT) ==
    /\ Cardinality(PartsOf(startT)) <= 1
    /\ Cardinality(PartsOf(endT)) <= 1
    /\ \A i \in PartsOf(deltaT) \cup PartsOf(endT) :
          /\ Cardinality({j \in PartsOf(startT) : j < i}) = 1
          /\ \A j \in PartsOf(startT) : out[j].id = out[i].id
    /\ \A i \in PartsOf(endT), j \in PartsOf(deltaT) : j < i

\* C5: every text-delta follows exactly one text-start and every
\* reasoning-delta exactly one reasoning-start with the same id; text-end
\* and reasoning-end are written at most once, only after their start, and
\* no delta of a kind follows that kind's end.
C5_SegmentsOpenBeforeDeltaCloseOnce ==
    /\ SegmentWellFormed("text-start", "text-delta", "text-end")
    /\ SegmentWellFormed("reasoning-start", "reasoning-delta", "reasoning-end")

\* two text deltas and a reasoning delta were written and the turn completed
C5_Witness ==
    /\ Cardinality(PartsOf("text-delta")) >= 2
    /\ PartsOf("text-end") # {}
    /\ nseq = MaxNotifs + 1

\* C6: at turn completion the stream gets text-end if text was opened, then
\* reasoning-end if reasoning was opened, then one finish, and is closed;
\* nothing is written after finish, and no end is written before completion.
C6_FinishSequence ==
    LET textOpen == PartsOf("text-start") # {}
        reasOpen == PartsOf("reasoning-start") # {}
        f == Len(out)
        r == IF reasOpen THEN f - 1 ELSE f
    IN  /\ Cardinality(PartsOf("finish")) <= 1
        /\ PartsOf("finish") = {} =>
              /\ PartsOf("text-end") = {} /\ PartsOf("reasoning-end") = {}
              /\ completions = 0
        /\ PartsOf("finish") # {} =>
              /\ out[f].type = "finish"
              /\ reasOpen => out[f - 1].type = "reasoning-end"
              /\ ~reasOpen => PartsOf("reasoning-end") = {}
              /\ textOpen => out[r - 1].type = "text-end"
              /\ ~textOpen => PartsOf("text-end") = {}
              /\ ctrlClosed
              /\ completions = 1

\* a turn with text and reasoning completed
C6_Witness ==
    /\ PartsOf("finish") # {}
    /\ PartsOf("text-end") # {}
    /\ PartsOf("reasoning-end") # {}
    /\ PartsOf("text-delta") # {}

\* C7: parts appear in the order of the notifications that caused them; a
\* segment start stands right before the first delta of its kind, the
\* segment ends stand right before finish, with the same notification.
C7_ArrivalOrderPreserved ==
    /\ \A i, j \in DOMAIN out : i < j => out[i].n <= out[j].n
    /\ \A i \in PartsOf("text-start") :
          i < Len(out) /\ out[i + 1].type = "text-delta" /\ out[i + 1].n = out[i].n
    /\ \A i \in PartsOf("reasoning-start") :
          i < Len(out) /\ out[i + 1].type = "reasoning-delta" /\ out[i + 1].n = out[i].n
    /\ \A i \in PartsOf("text-end") \cup PartsOf("reasoning-end") :
          out[i].n = out[Len(out)].n /\ out[Len(out)].type = "finish"

\* three notifications in a row each produced output
C7_Witness ==
    /\ \A k \in 1 .. (MaxNotifs + 1) : \E i \in DOMAIN out : out[i].n = k
    /\ PartsOf("tool-call") # {}
    /\ PartsOf("text-delta") # {}

IsTyped(part) == part.type # "raw"

\* C8: a notification of another thread or turn writes no typed part,
\* leaves the tool tracker and the delta-tracking sets as they are and does
\* not call the completion callback.  (lastNotif' is the notification the
\* step dispatched.)
C8_ForeignNotificationDiscarded ==
    [][ (lastNotif'.handled /\ lastNotif'.foreign)
            => /\ SelectSeq(out', IsTyped) = SelectSeq(out, IsTyped)
               /\ UNCHANGED <<activeTools, textItemIdsWithDelta,
                              reasoningItemIdsWithDelta, completions, ctrlClosed,
                              textStarted, reasoningStarted, notificationHandlers,
                              session>> ]_vars

\* a notification of another thread or turn was dispatched to its handler while a tool was tracked and a delta recorded
C8_Witness ==
    /\ lastNotif.handled
    /\ lastNotif.foreign
    /\ activeTools["i1"] # "none"
    /\ textItemIdsWithDelta # {}

\* =================================================================
\* Properties of a streamed turn with abort (specification SpecStream)
\* =================================================================

\* C9: controller.close() is called at most once per stream.
C9_ClosedAtMostOnce == closeCalls <= 1

\* the abort listener went through session.interrupt()'s request
AbortedWhileActive == calls[InterruptCaller].pc # "idle"
AbortListenerEnded == abortPc \in {"done", "threw"}

C10_Torn ==
    /\ calls[InterruptCaller].method = "turn/interrupt"
    /\ calls[InterruptCaller].arg = session.turnId
    /\ calls[InterruptCaller].started =>
          \E f \in wire : f.method = "turn/interrupt" /\ f.arg = session.turnId
    /\ notificationHandlers \cap RouterMethods = {}
    /\ unsubscribers = {}
    /\ ctrlClosed
    /\ PartsOf("finish") = {}

C11_NothingAfterAbort ==
    [][ abortPc # "armed" => (out' = out /\ completions' = completions) ]_vars

\* the turn/completed just dispatched was the router's own
OwnCompletionJustHandled ==
    /\ lastNotif.handled
    /\ lastNotif.status # "none"
    /\ ~lastNotif.foreign
    /\ PartsOf("finish") # {}

\* C12: a turn that fails with an error message before any text was opened
\* ends with text-start, one text-delta "Error: <message>" (with the
\* diagnostic text after a blank line when there is one), text-end, and a
\* finish part whose reason is not "stop".
C12_ErrorTextSynthesized ==
    LET f == Len(out)
        k == out[f].n
        expected == IF lastNotif.error = "messageAndInfo"
                    THEN "Error: message\n\ninfo" ELSE "Error: message"
    IN  (/\ OwnCompletionJustHandled
         /\ lastNotif.status = "failed"
         /\ lastNotif.error # "none"
         /\ \A i \in PartsOf("text-delta") : out[i].n = k)
        => /\ Cardinality(PartsOf("text-delta")) = 1
           /\ \A i \in PartsOf("text-delta") :
                 /\ out[i].text = expected
                 /\ out[i - 1].type = "text-start"
                 /\ out[i + 1].type = "text-end"
                 /\ i + 1 < f
           /\ out[f].type = "finish"
           /\ out[f].text # "stop"

\* a failed turn with diagnostic text completed after a tool call and no text
C12_Witness ==
    /\ OwnCompletionJustHandled
    /\ lastNotif.status = "failed"
    /\ lastNotif.error = "messageAndInfo"
    /\ PartsOf("tool-call") # {}
    /\ \E i \in PartsOf("text-delta") : out[i].text = "Error: message\n\ninfo"

\* the stream has ended: a finish part was written or the controller closed
StreamEnded == ctrlClosed \/ PartsOf("finish") # {}

\* C13: when the subprocess has gone while the turn streams, the stream
\* eventually ends.
C13_ExitEndsStream == (procs = {} /\ abortPc = "armed") ~> StreamEnded

\* =================================================================
\* Properties of the session (specification SpecSession)
\* =================================================================

\* the turn/interrupt frames written to the subprocess
InterruptFrames == {f \in wire : f.method = "turn/interrupt"}

\* C14: interrupt() on an idle session sends nothing and returns; on an
\* active session it sends one turn/interrupt for the current turn, and when
\* it is over the session is idle and nothing was thrown, whatever became
\* of the request.
C14_InterruptStep ==
    /\ Interrupt =>
          IF ~session.isActive \/ session.turnId = "null"
          THEN wire' = wire /\ calls'[InterruptCaller].pc = "returned"
          ELSE /\ calls'[InterruptCaller].method = "turn/interrupt"
               /\ calls'[InterruptCaller].arg = session.turnId
    /\ InterruptResume =>
          /\ ~session'.isActive
          /\ calls'[InterruptCaller].pc = "returned"

C14_InterruptBestEffort ==
    [][ C14_InterruptStep /\ Cardinality(InterruptFrames') <= 1 ]_vars

\* the frames of turn/start requests
TurnStartFrames == {f \in wire : f.method = "turn/start"}

\* C15: injectMessage() makes one turn/start request for the session's
\* thread, idle or active; it adopts a returned turn that is not the tracked
\* one and becomes active, keeps its state when the turn is the tracked one,
\* and keeps its state and throws when the request fails.
C15_InjectStep(c) ==
    /\ Inject(c) =>
          /\ calls'[c].method = "turn/start"
          /\ calls'[c].arg = SessionThread
          /\ wire' = wire
    /\ (RequestResume(c) /\ calls[c].started /\ calls[c].method = "turn/start") =>
          \E f \in TurnStartFrames' :
              /\ wire' = wire \cup {f}
              /\ f \notin wire
              /\ f.arg = SessionThread
    /\ InjectResume(c) =>
          IF calls[c].outcome = "result"
          THEN /\ calls'[c].pc = "returned"
               /\ calls'[c].result # session.turnId =>
                     session' = [turnId |-> calls'[c].result, isActive |-> TRUE]
               /\ calls'[c].result = session.turnId => session' = session
          ELSE /\ calls'[c].pc = "threw"
               /\ session' = session

C15_InjectAlwaysStartsTurn ==
    [][ \A c \in UserCallers : C15_InjectStep(c) ]_vars

\* an active session adopted another turn by one injectMessage() while a
\* second injectMessage() failed and left it alone
C15_Witness ==
    \E c, d \in UserCallers :
        /\ calls[c].pc = "returned"
        /\ calls[c].result = "6"
        /\ session = [turnId |-> "6", isActive |-> TRUE]
        /\ calls[d].pc = "threw"
        /\ Cardinality(TurnStartFrames) = 2

\* =================================================================
\* Properties of the router's item handlers (specification SpecRouter)
\* =================================================================

\* the router's state after its handler has been given notification n, the
\* next one to arrive
Handled(n) == RouterHandler(StreamState, n, nseq + 1)

\* the parts a handler appended to the stream
NewParts(S) == SubSeq(S.out, Len(out) + 1, Len(S.out))
OutExtended(S) == Len(S.out) >= Len(out) /\ SubSeq(S.out, 1, Len(out)) = out

ToolShaped == {"commandExecution", "McpToolCall"}
NotToolShaped == {"agentMessage", "Reasoning", "userMessage"}

\* a notification of the router's thread about item "i1"
ItemNotification(method, turnId, type, text, summary) ==
    [method |-> method, threadId |-> RouterThread, turnId |-> turnId,
     itemId |-> "i1", type |-> type, text |-> text, summary |-> summary,
     status |-> "completed", error |-> "none"]

\* the spellings of the router's turn id
OwnTurnIds == {t \in TurnIds : StringOf(t) = RouterTurn}

\* notifications of the router's own turn about a completed or started item
OwnToolCompletions ==
    {ItemNotification("item/completed", t, ty, "", "") : t \in OwnTurnIds, ty \in ToolShaped}
OwnToolStarts ==
    {ItemNotification("item/started", t, ty, "", "") : t \in OwnTurnIds, ty \in ToolShaped}
OwnOtherStarts ==
    {ItemNotification("item/started", t, ty, "", "") : t \in OwnTurnIds, ty \in NotToolShaped}

\* the tool name the payload of an item gives
NameOfPayload(n) == IF n.type = "McpToolCall" THEN "mcp__server__tool" ELSE "exec"

\* C16: as long as the router is subscribed, an item/completed of a tool
\* item writes exactly one tool-result with the item's id; its tool name is
\* the tracked one when the item was started and not yet completed, else the
\* one resolved from the completion payload; the tracker holds no entry for
\* the item afterwards.
C16_CompletedToolYieldsOneResult ==
    \A n \in OwnToolCompletions :
        n.method \in notificationHandlers =>
            LET S == Handled(n)
                tracked == activeTools[n.itemId]
            IN  /\ OutExtended(S)
                /\ Len(NewParts(S)) = 1
                /\ NewParts(S)[1].type = "tool-result"
                /\ NewParts(S)[1].id = n.itemId
                /\ NewParts(S)[1].text = IF tracked = "none" THEN NameOfPayload(n)
                                         ELSE tracked
                /\ S.activeTools = [activeTools EXCEPT ![n.itemId] = "none"]

\* a tool item completed twice without ever having been started
C16_Witness ==
    /\ PartsOf("tool-call") = {}
    /\ Cardinality(PartsOf("tool-result")) = 2
    /\ \A i \in PartsOf("tool-result") : out[i].text = "mcp__server__tool"
    /\ activeTools["i1"] = "none"

\* C17: as long as the router is subscribed, an item/started of a tool item
\* records the item in the tracker and writes tool-input-start,
\* tool-input-delta with the serialized input, tool-input-end and tool-call,
\* in this order, all with the item's id; an item/started of another item
\* writes nothing and records nothing.
C17_ToolStartSequence ==
    /\ \A n \in OwnToolStarts :
          n.method \in notificationHandlers =>
              LET S == Handled(n)
              IN  /\ OutExtended(S)
                  /\ Len(NewParts(S)) = 4
                  /\ NewParts(S)[1].type = "tool-input-start"
                  /\ NewParts(S)[2].type = "tool-input-delta"
                  /\ NewParts(S)[2].text # ""
                  /\ NewParts(S)[3].type = "tool-input-end"
                  /\ NewParts(S)[4].type = "tool-call"
                  /\ \A i \in 1 .. 4 : NewParts(S)[i].id = n.itemId
                  /\ S.activeTools = [activeTools EXCEPT ![n.itemId] = NameOfPayload(n)]
    /\ \A n \in OwnOtherStarts :
          n.method \in notificationHandlers =>
              (Handled(n).out = out /\ Handled(n).activeTools = activeTools)

\* an mcp tool call started after text had been written
C17_Witness ==
    /\ activeTools["i1"] = "mcp__server__tool"
    /\ \E i \in PartsOf("tool-call") : i > 4 /\ out[i - 3].type = "tool-input-start"
    /\ PartsOf("text-delta") # {}

\* own completions of an agent message and of a reasoning item, of either item
OwnMessageCompletions ==
    {[ItemNotification("item/completed", t, "agentMessage", x, "") EXCEPT !.itemId = i] :
        t \in OwnTurnIds, x \in ItemTexts, i \in ItemIds}
OwnReasoningCompletions ==
    {[ItemNotification("item/completed", t, "Reasoning", x, y) EXCEPT !.itemId = i] :
        t \in OwnTurnIds, x \in ItemTexts, y \in ItemTexts, i \in ItemIds}

\* a delta notification of the item has been handled: the output holds a
\* part written by a delta handler, and every delta notification of
\* SpecRouter is about item "i1"
DeltaHandled(type, itemId) ==
    itemId = "i1" /\ \E k \in PartsOf(type) : out[k].text = "delta"

\* the parts of one type among the parts a handler appended
NewDeltas(S, type) == SelectSeq(NewParts(S), LAMBDA p : p.type = type)

\* the deltas a reasoning item without deltas is completed with
ReasoningFallback(n) ==
    (IF n.summary # "" THEN <<[text |-> n.summary, flag |-> TRUE]>> ELSE <<>>)
    \o (IF n.text # "" THEN <<[text |-> n.text, flag |-> FALSE]>> ELSE <<>>)

\* the parts appended are the deltas and at most the part opening the segment
OnlySegmentStart(S, type, startT) ==
    /\ OutExtended(S)
    /\ Len(NewParts(S)) <= Len(NewDeltas(S, type)) + 1
    /\ \A k \in 1 .. Len(NewParts(S)) : NewParts(S)[k].type \in {type, startT}

OwnCompletionStep ==
    /\ nseq' = nseq + 1
    /\ lastNotif'.handled
    /\ lastNotif'.status # "none"
    /\ ~lastNotif'.foreign

\* the unified finish reason of a turn status
FinishReasonOf(status) ==
    CASE status \in {"completed", "interrupted"} -> "stop"
      [] status = "failed" -> "error"
      [] OTHER -> "other"

\* C19: the handling of a turn/completed of the router's own thread and turn
\* empties both delta-tracking sets and invokes the completion callback, for
\* the only time in the life of the stream; the callback was given the
\* turn's status (the finish part carries the reason of that status) and
\* its error (the error text is written when no text was); after it the
\* session is inactive and no handler of the router is registered with the
\* client.
C19_CompletionTearsDown ==
    [][ OwnCompletionStep =>
          /\ textItemIdsWithDelta' = {}
          /\ reasoningItemIdsWithDelta' = {}
          /\ completions = 0 /\ completions' = 1
          /\ out'[Len(out')].type = "finish"
          /\ out'[Len(out')].text = FinishReasonOf(lastNotif'.status)
          /\ (lastNotif'.error # "none" /\ ~textStarted) =>
                \E k \in DOMAIN out' :
                    /\ k > Len(out)
                    /\ out'[k].type = "text-delta"
                    /\ out'[k].text = IF lastNotif'.error = "message"
                                      THEN "Error: message"
                                      ELSE "Error: message\n\ninfo"
          /\ (lastNotif'.error = "none" \/ textStarted) =>
                \A k \in DOMAIN out' : k > Len(out) => out'[k].type # "text-delta"
          /\ ~session'.isActive
          /\ notificationHandlers' \cap RouterMethods = {}
          /\ unsubscribers' = {}
          /\ cleanups' = cleanups + 1
      ]_vars

\* an interrupted turn completed after text and reasoning of item i1 had been
\* streamed
C19_Witness ==
    /\ OwnCompletionJustHandled
    /\ lastNotif.status = "interrupted"
    /\ DeltaHandled("text-delta", "i1")
    /\ DeltaHandled("reasoning-delta", "i1")
    /\ textItemIdsWithDelta = {}
    /\ reasoningItemIdsWithDelta = {}
    /\ completions = 1
    /\ ~session.isActive
    /\ notificationHandlers \cap RouterMethods = {}

\* =================================================================
\* Properties of rejected requests (specification Spec)
\* =================================================================

\* C20: the pending table holds no entry of a request whose promise is
\* settled: once request() has been rejected (error response, timeout,
\* closed connection, frame not written) or resolved, the entry stored
\* under its id is gone.
C20_SettledLeavesNoEntry ==
    \A c \in Callers :
        (calls[c].outcome # "none" /\ calls[c].id # 0) =>
            calls[c].id \notin pendingRequests

\* =================================================================
\* Properties of the dispatch of notifications (specification SpecDispatch)
\* =================================================================

\* the step dispatches a notification of the method
PassStep == passes' = passes + 1

\* the place of a handler in the Set's insertion order
Place(set, h) == CHOOSE i \in DOMAIN set : set[i] = h

\* the handlers a pass invoked
Invoked(log) == {log[i] : i \in DOMAIN log}

\* C21: a dispatch pass invokes handlers that were registered when it began,
\* in their registration order and none of them twice; every handler that
\* is not unsubscribed during the pass is invoked, whether or not a handler
\* before it threw; each exception is caught (counted, not propagated): the
\* client's process, its pending requests and its callers are as before.
C21_DispatchInOrderOnce ==
    [][ PassStep =>
          /\ Invoked(passLog') \subseteq Registered
          /\ \A i, j \in DOMAIN passLog' :
                i < j => Place(methodHandlers, passLog'[i])
                           < Place(methodHandlers, passLog'[j])
          /\ \A h \in Registered :
                (\E i \in DOMAIN methodHandlers' : methodHandlers'[i] = h)
                    => h \in Invoked(passLog')
          /\ handlerErrors' = handlerErrors
                + Cardinality({i \in DOMAIN passLog' :
                                  handlerKind[passLog'[i]].op = "throw"})
          /\ UNCHANGED <<process, procs, initialized, pendingRequests, timers, calls>>
      ]_vars

\* two notifications were dispatched to the second and third handler
\* registered, the first of which throws each time
C21_Witness ==
    /\ passes = 2
    /\ methodHandlers = <<2, 3>>
    /\ passLog = <<2, 3>>
    /\ handlerKind[2].op = "throw"
    /\ handlerErrors = 2

\* C22: a dispatch pass invokes every handler that was registered for the
\* method when the pass began, also one that a handler invoked earlier in
\* the pass has unsubscribed.
C22_PassUnaffectedByUnsubscribe ==
    [][ PassStep => Registered \subseteq Invoked(passLog') ]_vars

\* =================================================================
\* Properties of unparsable lines and of dispose() (specification Spec)
\* =================================================================

\* the step reads a line that does not parse
MalformedStep == nlines' = nlines + 1 /\ lastFrame'.kind = "malformed"

\* the step reads, right after a line that did not parse, a result or error
\* response whose id is pending
ResponseAfterMalformed ==
    /\ lastFrame.kind = "malformed"
    /\ nlines' = nlines + 1
    /\ lastFrame'.kind \in {"result", "error"}
    /\ lastFrame'.id \in pendingRequests

\* C23: a stdout line that does not parse leaves the pending requests, their
\* timers, every caller's promise, the subprocess and the client's fields
\* as they are, and invokes no handler; the line after it is handled as
\* usual: a response to a pending request removes its entry and settles the
\* request's promise, if it is not settled yet.
C23_MalformedLineChangesNothing ==
    [][ /\ MalformedStep =>
              /\ UNCHANGED <<process, procs, spawned, disposeCalls, epochSpawns, handshakes,
                             initialized, starting, pendingRequests, timers,
                             owner, nextId, calls, wire>>
              /\ UNCHANGED streamVars
        /\ ResponseAfterMalformed =>
              /\ lastFrame'.found
              /\ lastFrame'.id \notin pendingRequests'
              /\ lastFrame'.id \notin timers'
              /\ LET c == owner[lastFrame'.id]
                 IN  /\ lastFrame'.caller = c
                     /\ lastFrame'.id \in calls'[c].by
                     /\ calls[c].outcome = "none" =>
                           calls'[c].outcome = lastFrame'.kind
      ]_vars

\* an unparsable line has just been read while two requests were pending,
\* and both still are
C23_Witness ==
    /\ lastFrame.kind = "malformed"
    /\ nlines < MaxLines
    /\ Cardinality(pendingRequests) = 2
    /\ \A id \in pendingRequests :
          /\ id \in timers
          /\ calls[owner[id]].pc = "pending"
          /\ calls[owner[id]].outcome = "none"

\* the step is a call of dispose(); the step is an 'exit' or 'error' event
DisposeStep == disposeCalls' = disposeCalls + 1
ExitStep == procs' # procs /\ Cardinality(procs') < Cardinality(procs)

\* what the end of the connection does to the client: no process, not
\* initialized, no start in flight, an empty pending table with every timer
\* of it cleared, every request that was pending rejected with the
\* connection-closed error, no other caller touched
ConnectionClosedEffect ==
    /\ process' = 0
    /\ ~initialized'
    /\ starting' = "null"
    /\ pendingRequests' = {}
    /\ timers' = timers \ pendingRequests
    /\ \A c \in Callers :
          IF \E id \in pendingRequests : owner[id] = c
          THEN /\ calls'[c].outcome = IF calls[c].outcome = "none" THEN "closed"
                                      ELSE calls[c].outcome
               /\ calls'[c].pc \notin {"pending", "resume"}
          ELSE calls'[c] = calls[c]
    /\ UNCHANGED <<owner, nextId, nlines, lastFrame, spawned>>

\* C24: dispose() on a client that has a process sends it SIGTERM and does
\* to the client what an exit or error event of the subprocess does; on a
\* client without a process (disposed before, or never started) it changes
\* nothing.
C24_DisposeLikeExit ==
    [][ /\ (DisposeStep /\ process # 0) =>
              /\ Sigterm(process) \in wire'
              /\ procs' = procs
              /\ ConnectionClosedEffect
        /\ ExitStep => (ConnectionClosedEffect /\ wire' = wire)
        /\ (DisposeStep /\ process = 0) =>
              /\ UNCHANGED <<process, procs, spawned, epochSpawns, handshakes,
                             initialized, starting, pendingRequests, timers,
                             owner, nextId, calls, wire, nlines, lastFrame>>
              /\ UNCHANGED streamVars
      ]_vars

\* dispose() was called twice in a row on a client with two pending requests
C24_Witness ==
    /\ disposeCalls = 2
    /\ process = 0
    /\ procs = {1}
    /\ wire \cap {Sigterm(p) : p \in 1 .. MaxProcs} = {Sigterm(1)}
    /\ pendingRequests = {}
    /\ Cardinality({c \in Callers : calls[c].outcome = "closed"}) = 2
    /\ nlines = 0

\* =================================================================
\* Ownership of notifications with numeric ids (specification SpecNumeric)
\* =================================================================

\* C25: a notification whose thread id or turn id is a number equal to the
\* router's string id passes the ownership test, and the handler of its
\* method, whichever of the handled methods it is, does with it exactly what
\* it does with the notification that spells both ids as strings
\* string-id notifications of the router's own pair, of every handled method
OwnOfEveryMethod ==
    {ItemNotification(m, RouterTurn, "userMessage", "", "") :
        m \in RouterMethods \ {"item/started", "item/completed", "turn/completed"}}
    \cup {ItemNotification(m, RouterTurn, ty, tx, sm) :
            m \in {"item/started", "item/completed"}, ty \in ItemTypes,
            tx \in ItemTexts, sm \in ItemTexts}
    \cup {[ItemNotification("turn/completed", RouterTurn, "userMessage", "", "")
             EXCEPT !.status = st, !.error = e] : st \in TurnStatuses, e \in TurnErrors}

C25_NumericIdsOwned ==
    \A n \in OwnOfEveryMethod, sp \in NumericSpellings :
        LET nn == [n EXCEPT !.threadId = sp[1], !.turnId = sp[2]]
        IN  /\ n.method \in RouterMethods
            /\ Owned(nn)
            /\ n.method \in notificationHandlers => Handled(nn) = Handled(n)
    /\ {own.method : own \in OwnOfEveryMethod} = RouterMethods


\* numeric-id notifications alone have streamed a text delta and finished
\* the turn
C25_Witness ==
    /\ nseq = 2
    /\ ctrlClosed
    /\ \E i \in 1 .. Len(out) : out[i].type = "text-delta"
    /\ \E i \in 1 .. Len(out) : out[i].type = "finish"
    /\ {n.method : n \in NumericNotifications} = RouterMethods

\* =================================================================
\* The error flag of a tool-result (specification SpecTool)
\* =================================================================

\* the part carries isError: true
HasErrorFlag(part) == "isError" \in DOMAIN part /\ part.isError

\* an exit code, or an error, is present: the property is there and not null
Present(v) == v \notin {"undefined", "null"}

\* the flag the tool-result of a completed item is to carry
ErrorFlagExpected(n) ==
    CASE n.type = "commandExecution" -> Present(n.exitCode) /\ n.exitCode # "0"
      [] n.type = "McpToolCall" -> Present(n.itemError)
      [] OTHER -> FALSE

ToolCompletions ==
    {ToolNotification("item/completed", "i1", ty, ec, er) :
        ty \in ToolItemTypes, ec \in ExitCodes, er \in ItemErrors}


\* C26: while the router is subscribed and the stream open, the completion
\* of a tool item writes one tool-result, and that part carries isError
\* exactly when the item is a command execution with an exit code that is
\* present and not 0, or a remote tool call with an error present; never for
\* a file change or a web search
C26_ErrorFlagAsSpecified ==
    \A n \in ToolCompletions :
        ("item/completed" \in notificationHandlers /\ ~ctrlClosed) =>
            LET parts == NewParts(Handled(n))
            IN  /\ Len(parts) = 1
                /\ parts[1].type = "tool-result"
                /\ HasErrorFlag(parts[1]) <=> ErrorFlagExpected(n)

\* =================================================================
\* The finish reason (specification SpecFinish)
\* =================================================================

\* C27: the finish part written on the router's own turn/completed has the
\* unified reason "stop" for the statuses completed and interrupted, "error"
\* for failed, and "other" for every other status, a missing one included;
\* for failed its raw payload is the serialized error, or the status itself
\* when the turn carries no error
C27_FinishReasonOfStatus ==
    [][ OwnCompletionStep =>
          LET finish == out'[Len(out')]
              status == lastNotif'.status
              error  == lastNotif'.error
          IN  /\ finish.type = "finish"
              /\ status \in {"completed", "interrupted"} => finish.text = "stop"
              /\ status = "failed" =>
                    /\ finish.text = "error"
                    /\ error = "none" => finish.raw = "failed"
                    /\ error = "message" => finish.raw = "{message}"
                    /\ error = "messageAndInfo" => finish.raw = "{message,codexErrorInfo}"
              /\ status \notin {"completed", "interrupted", "failed"} =>
                    finish.text = "other"
      ]_vars

\* a turn that streamed text has failed with an error
C27_Witness ==
    /\ OwnCompletionJustHandled
    /\ lastNotif.status = "failed"
    /\ lastNotif.error = "message"
    /\ out[Len(out)].type = "finish"
    /\ out[Len(out)].text = "error"
    /\ out[Len(out)].raw = "{message}"
    /\ \E i \in 1 .. Len(out) : out[i].type = "text-delta" /\ out[i].text = "delta"

\* =================================================================
\* The emitter's methods called directly (specification SpecEmitter)
\* =================================================================

\* the emitter after emitReasoningDelta(text, isSummary), called next
ReasoningEmitted(text, isSummary) ==
    emitReasoningDelta(StreamState, nseq + 1, text, isSummary)

\* C28: emitReasoningDelta(text, isSummary) on an open stream appends a
\* reasoning-delta whose delta is the input text itself, for every text and
\* both flags, preceded by reasoning-start only if the segment was not open;
\* the part carries the summary marker of its provider metadata exactly
\* when isSummary is true, and nothing written before is touched
C28_ReasoningDeltaUnchanged ==
    \A text \in DeltaTexts, isSummary \in BOOLEAN :
        ~ctrlClosed =>
            LET S == ReasoningEmitted(text, isSummary)
                parts == NewParts(S)
                delta == parts[Len(parts)]
            IN  /\ OutExtended(S)
                /\ Len(parts) = IF reasoningStarted THEN 1 ELSE 2
                /\ ~reasoningStarted => parts[1].type = "reasoning-start"
                /\ delta.type = "reasoning-delta"
                /\ delta.text = text
                /\ delta.flag = isSummary

\* a regular delta and a summary delta have been written, each with its text
C28_Witness ==
    /\ Len(out) = 5
    /\ out[3].type = "reasoning-start"
    /\ out[4] = Part("reasoning-delta", ReasoningId, 1, "Hello world", FALSE)
    /\ out[5] = Part("reasoning-delta", ReasoningId, 2, "[summary] x", TRUE)

\* =================================================================
\* The head of the stream (specification SpecFinish)
\* =================================================================

\* C29: at every moment of the stream its first part is stream-start with
\* the warnings doStream collected, its second part response-metadata with
\* the turn's id and the model's id, both written by doStream itself, and
\* every part a notification caused comes after these two
C29_StreamStartsFirst ==
    /\ Len(out) >= 2
    /\ out[1].type = "stream-start"
    /\ out[1].warnings = warnings
    /\ out[1].n = 0
    /\ out[2].type = "response-metadata"
    /\ out[2].id = RouterTurn
    /\ out[2].modelId = modelId
    /\ out[2].n = 0
    /\ \A i \in 1 .. Len(out) : i > 2 <=> out[i].n > 0

\* a call with a warning and another model has streamed text and finished
C29_Witness ==
    /\ warnings # NoWarnings
    /\ modelId = "gpt-5.1-codex-max"
    /\ out[1].warnings = warnings
    /\ out[2].modelId = "gpt-5.1-codex-max"
    /\ Len(out) = 6
    /\ out[3].type = "text-start"
    /\ out[4].type = "text-delta"
    /\ out[5].type = "text-end"
    /\ out[6].type = "finish"
    /\ ctrlClosed

\* =================================================================
\* The session id on the finish part (specification SpecEmitter)
\* =================================================================

\* C30: every finish part of the stream, whatever the status emitFinish was
\* given, carries the provider metadata's session id, equal to the thread
\* id of the stream
C30_FinishCarriesSessionId ==
    \A i \in 1 .. Len(out) :
        out[i].type = "finish" =>
            "sessionId" \in DOMAIN out[i] /\ out[i].sessionId = RouterThread

\* =================================================================
\* Properties of doStream's setup (specification SpecModel)
\* =================================================================

\* the failures a request of the setup can end in
SetupFailures == {"error", "timeout", "closed"}

\* C31: a doStream() whose thread/start, thread/resume or turn/start failed
\* has rejected with that failure, has run the temporary-file cleanup once,
\* has returned no stream and has registered no handler; and as long as no
\* call has a stream the transport holds no handler of a router
C31_SetupFailureCleansUp ==
    /\ \A d \in DoStreamCalls :
          doStreams[d].pc = "rejected" =>
              /\ doStreams[d].error \in SetupFailures
              /\ doStreams[d].tempFilesCleaned = 1
              /\ ~doStreams[d].stream
              /\ ~doStreams[d].subscribed
    /\ (\A d \in DoStreamCalls : ~doStreams[d].stream) => notificationHandlers = {}

\* one call failed when resuming a thread, another when starting its turn
C31_Witness ==
    /\ doStreams[1].pc = "rejected"
    /\ doStreams[1].threadRequest = "thread/resume"
    /\ doStreams[1].error = "error"
    /\ doStreams[1].threadId = 0
    /\ doStreams[2].pc = "rejected"
    /\ doStreams[2].threadRequest = "thread/start"
    /\ doStreams[2].threadId # 0
    /\ doStreams[2].error = "timeout"
    /\ notificationHandlers = {}

\* the doStream() calls made so far
Made(ds) == {d \in DoStreamCalls : ds[d].pc # "idle"}

\* C32: on a model whose calls are all persistent without resume setting,
\* the first doStream() requests thread/start, no later one does, and all
\* calls work on the same thread; a stateless doStream() always requests
\* thread/start, and the end of its stream, by completion or by abort,
\* leaves the model without current session
C32_ThreadReuse ==
    [][ /\ (\A d \in Made(doStreams') : doStreams'[d].mode = "persistent") =>
              /\ \A d \in Made(doStreams') :
                    doStreams'[d].threadRequest = "thread/start" <=> d = 1
              /\ \A d, e \in Made(doStreams') :
                    (doStreams'[d].threadId # 0 /\ doStreams'[e].threadId # 0)
                        => doStreams'[d].threadId = doStreams'[e].threadId
        /\ \A d \in Made(doStreams') :
              doStreams'[d].mode = "stateless" =>
                  doStreams'[d].threadRequest = "thread/start"
        /\ \A d \in DoStreamCalls :
              (/\ doStreams[d].mode = "stateless"
               /\ doStreams[d].pc = "streaming"
               /\ doStreams'[d].pc = "ended") => currentSession' = 0
      ]_vars

\* =================================================================
\* The tool statistics of the finish part (specification SpecRouter)
\* =================================================================

\* the tool-result parts of a stream that name the tool
ToolResults(o, name) ==
    Cardinality({i \in DOMAIN o : o[i].type = "tool-result" /\ o[i].text = name})

\* C33: the finish part written on the router's own turn/completed carries
\* tool statistics that describe the turn: totalCalls is the number of tool
\* executions completed during it and the sum of the four byType counters,
\* and each counter is the number of completed tool items of its type
C33_ToolStatsDescribeTurn ==
    [][ OwnCompletionStep =>
          LET stats == out'[Len(out')].toolStats
          IN  /\ stats.totalCalls =
                    Cardinality({i \in DOMAIN out' : out'[i].type = "tool-result"})
              /\ stats.totalCalls = stats.commands + stats.fileChanges
                                    + stats.mcpTools + stats.webSearches
              /\ stats.commands = ToolResults(out', "exec")
              /\ stats.fileChanges = ToolResults(out', "patch")
              /\ stats.mcpTools = ToolResults(out', "mcp__server__tool")
              /\ stats.webSearches = ToolResults(out', "web_search")
      ]_vars

\* =================================================================
\* Properties of the pending table (specification Spec)
\* =================================================================

\* C34: whenever the entry of a request leaves the pending table, by a
\* response frame carrying its id, by its timeout or by a shutdown, the
\* promise request() returned has been resolved or rejected, whatever the
\* body of the response frame
C34_RemovedEntryIsSettled ==
    [][ \A id \in pendingRequests :
            id \notin pendingRequests' => calls'[owner[id]].outcome # "none" ]_vars

\* the 'exit' or 'error' listener of subprocess p ran in this step: these
\* listeners alone take a subprocess out of procs
ListenerOfFired(p) == p \in procs /\ p \notin procs'

\* C35: the late 'exit' or 'error' event of a subprocess the client no
\* longer holds, because dispose() dropped it or a later spawn replaced it,
\* leaves the state of the subprocess the client holds now as it was: the
\* process handle, initialized, the start in flight and the pending requests
C35_LateExitLeavesNewerProcess ==
    [][ \A p \in 1 .. MaxProcs :
            (ListenerOfFired(p) /\ process # 0 /\ p # process)
                => UNCHANGED <<process, initialized, starting, pendingRequests, calls>> ]_vars

\* the same for a subprocess dispose() has signalled
C35_DisposedExitLeavesNewerProcess ==
    [][ \A p \in 1 .. MaxProcs :
            (ListenerOfFired(p) /\ process # 0 /\ p # process /\ Sigterm(p) \in wire)
                => UNCHANGED <<process, initialized, starting, pendingRequests, calls>> ]_vars

\* caller c entered request() in this step, which begins with ensureStarted()
RequestCalled(c) == calls[c].pc = "idle" /\ calls'[c].pc = "resume"

\* C36: a start that failed is not kept: when this.starting holds a rejected
\* start while the subprocess is alive, the next request() runs start()
\* again, which spawns, instead of awaiting the rejected promise
C36_FailedStartIsRetried ==
    [][ \A c \in UserCallers :
            (/\ RequestCalled(c)
             /\ starting = "rejected" /\ ~initialized
             /\ process # 0 /\ process \in procs
             /\ spawned < MaxProcs)
                => spawned' > spawned ]_vars

\* =================================================================
\* Properties of doStream between turn/start and the subscription
\* (specification SpecSetup)
\* =================================================================

\* turn/start was answered with a result: the turn exists
TurnCreated == calls[DoStreamCaller].outcome = "result"

\* a notification line of the created turn was read in this step
OwnLineRead == nlines' = nlines + 1 /\ lastFrame'.kind = "notification"

\* C37: once the response of turn/start has been read, every notification
\* of the new turn that is read reaches the router: its method has a
\* handler and the router handles it, also when the line comes in the stdout
\* chunk of the response
C37_NoNotificationLost ==
    [][ (TurnCreated /\ OwnLineRead) => (lastFrame'.found /\ lastNotif'.handled) ]_vars

\* =================================================================
\* Properties of a cancelled stream (specification SpecCancel)
\* =================================================================

\* the consumer cancelled the stream and the turn has not completed: the
\* controller is closed though close() was never called
CancelledBeforeCompletion == ctrlClosed /\ closeCalls = 0 /\ completions = 0

\* C38: when the consumer cancelled the stream before the turn completed,
\* the handling of the turn's turn/completed leaves, at the latest, none of
\* the router's handlers registered and the call's cleanup run
C38_CancelledStreamIsReleased ==
    [][ (CancelledBeforeCompletion /\ OwnCompletionStep)
            => (notificationHandlers' = {} /\ cleanups' >= 1) ]_vars

\* =================================================================
\* Properties of the raw chunks (specification SpecRaw)
\* =================================================================

\* the step handled a notification of another thread or another turn
ForeignStep == lastNotif'.handled /\ lastNotif'.foreign

\* C39: with includeRawChunks every raw part comes from a notification of
\* the router's own (thread, turn) pair: handling a notification of another
\* thread or turn adds no raw part to the stream
C39_RawOnlyFromOwnTurn ==
    [][ ForeignStep => Cardinality(RawParts(out')) = Cardinality(RawParts(out)) ]_vars

\* =================================================================
\* Properties of a stream whose session adopts another turn
\* (specification SpecInject)
\* =================================================================

\* the turn id injectMessage() adopted, another one than the router's
AdoptedTurn == "6"

\* the session tracks the adopted turn while the router was made for RouterTurn
Adopted == session.turnId = AdoptedTurn

\* the step is the dispatch of a notification line: the client and the
\* abort listener are where they were
NotificationStep == UNCHANGED <<clientVars, abortPc>>

\* the abort listener called session.interrupt() in this step, which sent
\* turn/interrupt
InterruptStep == abortPc = "armed" /\ abortPc' = "awaitRequest"

\* C40: the router's (thread, turn) pair is fixed when it is made.  Once
\* injectMessage() made the session adopt another turn id, the stream still
\* takes the notifications of the original turn and only those: a
\* notification of another turn, the adopted one included, writes no part
\* and does not finish the stream, the stream finishes only on the
\* turn/completed of the original turn, and session.interrupt() names the
\* adopted turn id
C40_RouterPairIsFixed ==
    [][ Adopted =>
          /\ (NotificationStep /\ lastNotif'.handled /\ lastNotif'.foreign)
                => UNCHANGED <<out, ctrlClosed, completions, nseq, notificationHandlers>>
          /\ (NotificationStep /\ lastNotif'.handled /\ ~lastNotif'.foreign)
                => nseq' = nseq + 1
          /\ completions' # completions
                => (NotificationStep /\ ~lastNotif'.foreign /\ lastNotif'.status # "none")
          /\ InterruptStep => calls'[InterruptCaller].arg = AdoptedTurn ]_vars

\* the session adopted turn "6", session.interrupt() asked the subprocess to
\* interrupt turn "6", and a notification of turn "6" was dispatched to the
\* router, which let it pass
C40_Witness ==
    /\ Adopted
    /\ \E f \in wire : f.method = "turn/interrupt" /\ f.arg = AdoptedTurn
    /\ lastNotif.handled /\ lastNotif.foreign

\* the session adopted turn "6" and the stream finished on the
\* turn/completed of turn "5"
C40_FinishedOnOriginal ==
    /\ Adopted
    /\ completions = 1
    /\ \E i \in 1 .. Len(out) : out[i].type = "finish"
    /\ ~lastNotif.foreign /\ lastNotif.status # "none"
====
